---------------------------- MODULE Spec2Model ----------------------------
(***************************************************************************)
(* Model of the category-based pattern engine of krep                      *)
(* (src/topics/pattern.py): PatternItem, PatternFile and Pattern.          *)
(*                                                                         *)
(* A Python string is a sequence of one-character strings.  The absent     *)
(* value None is the one-element sequence <<"None">>, which differs from    *)
(* every string over the one-character alphabet and from the empty string. *)
(* Regular expressions are the subset made of literal characters, "." and  *)
(* a postfix "*"; every pattern the model feeds to re.search / re.sub is   *)
(* in that subset.                                                         *)
(***************************************************************************)
EXTENDS Integers, Sequences, FiniteSets, TLC

None == <<"None">>

\* Python truthiness of an optional string: None and "" are falsy.
Truthy(s) == s # None /\ s # <<>>

\* `a or b` on optional strings.
Or(a, b) == IF Truthy(a) THEN a ELSE b

(***************************************************************************)
(* str methods                                                             *)
(***************************************************************************)
CATEGORY_DELIMITER == ":"
PATTERN_DELIMITER == ","
OPPOSITE_DELIMITER == "!"
ITEM_NAME_DELIMITER == "@"
REPLACEMENT_DELIMITER == "~"
CONN_REPLACE_DELIMITER == "="

\* the suffixes of PatternItem.REPLACEMENT, in the order of the tuple
REPLACEMENT == << <<"-","r","p">>,
                  <<"-","r","e","p","l","a","c","e">>,
                  <<"-","r","e","p","l","a","c","e","m","e","n","t">> >>

\* s[i:] with a 0-based index, as Python slices
From(s, i) == SubSeq(s, i + 1, Len(s))

\* s[:i]
UpTo(s, i) == SubSeq(s, 1, i)

\* s.find(ch): 0-based index of the first occurrence, -1 when there is none
Find(s, ch) ==
    IF \E i \in 1..Len(s) : s[i] = ch
    THEN (CHOOSE i \in 1..Len(s) : s[i] = ch /\ \A j \in 1..(i-1) : s[j] # ch) - 1
    ELSE -1

StartsWith(s, ch) == Len(s) > 0 /\ s[1] = ch

EndsWith(s, suffix) ==
    Len(s) >= Len(suffix) /\ From(s, Len(s) - Len(suffix)) = suffix

\* s.split(ch): every piece, the empty ones included
RECURSIVE Split(_, _)
Split(s, ch) ==
    IF Find(s, ch) = -1 THEN << s >>
    ELSE << UpTo(s, Find(s, ch)) >> \o Split(From(s, Find(s, ch) + 1), ch)

\* s.split(ch, 1) when ch occurs in s
SplitOnce(s, ch) == << UpTo(s, Find(s, ch)), From(s, Find(s, ch) + 1) >>

\* s.strip(): the blank is the only whitespace of the alphabet
RECURSIVE LStrip(_)
LStrip(s) == IF StartsWith(s, " ") THEN LStrip(Tail(s)) ELSE s

RECURSIVE RStrip(_)
RStrip(s) == IF Len(s) > 0 /\ s[Len(s)] = " " THEN RStrip(UpTo(s, Len(s) - 1)) ELSE s

Strip(s) == RStrip(LStrip(s))

\* sep.join(parts)
RECURSIVE Join(_, _)
Join(parts, sep) ==
    IF parts = << >> THEN << >>
    ELSE IF Len(parts) = 1 THEN parts[1]
    ELSE parts[1] \o << sep >> \o Join(Tail(parts), sep)

(***************************************************************************)
(* re: literal characters, "." and postfix "*", with the backtracking      *)
(* (greedy) matcher of Python                                              *)
(***************************************************************************)
\* the regex as a sequence of [c, star] elements
RECURSIVE Elems(_)
Elems(p) ==
    IF p = << >> THEN << >>
    ELSE IF Len(p) >= 2 /\ p[2] = "*"
         THEN << [c |-> p[1], star |-> TRUE] >> \o Elems(From(p, 2))
         ELSE << [c |-> p[1], star |-> FALSE] >> \o Elems(Tail(p))

CharOk(e, ch) == e.c = "." \/ e.c = ch

\* how many characters of s from position i on element e accepts in a row
RECURSIVE Run(_, _, _)
Run(e, s, i) == IF i <= Len(s) /\ CharOk(e, s[i]) THEN 1 + Run(e, s, i + 1) ELSE 0

\* The position after the match of elements k.. of es that starts at position
\* i of s (1-based), 0 when there is no match.  A star takes the longest run
\* first and gives characters back one at a time.
RECURSIVE MatchFrom(_, _, _, _), StarTry(_, _, _, _, _)
MatchFrom(es, k, s, i) ==
    IF k > Len(es) THEN i
    ELSE IF es[k].star THEN StarTry(es, k, s, i, Run(es[k], s, i))
    ELSE IF i <= Len(s) /\ CharOk(es[k], s[i]) THEN MatchFrom(es, k + 1, s, i + 1)
    ELSE 0

StarTry(es, k, s, i, n) ==
    LET r == MatchFrom(es, k + 1, s, i + n)
    IN  IF r # 0 THEN r
        ELSE IF n = 0 THEN 0
        ELSE StarTry(es, k, s, i, n - 1)

\* re.search(p, s) is not None
RegexSearch(p, s) == \E i \in 1..(Len(s) + 1) : MatchFrom(Elems(p), 1, s, i) # 0

\* re.sub(p, repl, s) from position i on; last is the position where the
\* previous match ended (0: none).  An empty match is replaced only when it is
\* not adjacent to the previous match.
RECURSIVE SubFrom(_, _, _, _, _)
SubFrom(es, repl, s, i, last) ==
    LET e == MatchFrom(es, 1, s, i)
        rest(l) == IF i > Len(s) THEN << >>
                   ELSE << s[i] >> \o SubFrom(es, repl, s, i + 1, l)
    IN  IF e = 0 THEN rest(last)
        ELSE IF e > i THEN repl \o SubFrom(es, repl, s, e, e)
        ELSE IF i = last THEN rest(last)
        ELSE repl \o rest(i)

RegexSub(p, repl, s) == SubFrom(Elems(p), repl, s, 1, 0)

(***************************************************************************)
(* PatternItem                                                             *)
(***************************************************************************)
\* PatternItem.__init__ before any pattern is added
PatternItem_new(category, name) ==
    [category |-> category, name |-> name, cont |-> FALSE,
     include |-> << >>, exclude |-> << >>, subst |-> << >>]

PatternItem_len(item) == Len(item.include) + Len(item.exclude) + Len(item.subst)

ensure_category(name) ==
    IF Truthy(name) /\ EndsWith(name, REPLACEMENT[1])
    THEN UpTo(name, Len(name) - Len(REPLACEMENT[1]))
    ELSE IF Truthy(name) /\ EndsWith(name, REPLACEMENT[2])
    THEN UpTo(name, Len(name) - Len(REPLACEMENT[2]))
    ELSE IF Truthy(name) /\ EndsWith(name, REPLACEMENT[3])
    THEN UpTo(name, Len(name) - Len(REPLACEMENT[3]))
    ELSE name

\* re.match('%(p)s[^%(p)s]*%(p)s[^%(p)s]*%(p)s', value): value starts with the
\* delimiter p and holds two more of them
MatchDelimiters(value, p) ==
    /\ StartsWith(value, p)
    /\ \E i, j \in 2..Len(value) :
          /\ i < j
          /\ value[i] = p
          /\ value[j] = p
          /\ \A k \in 2..(j - 1) : k # i => value[k] # p

is_replace_str(value) ==
    /\ Truthy(value)
    /\ (StartsWith(value, CONN_REPLACE_DELIMITER) \/ StartsWith(value, REPLACEMENT_DELIMITER))
    /\ (MatchDelimiters(value, CONN_REPLACE_DELIMITER)
        \/ MatchDelimiters(value, REPLACEMENT_DELIMITER))

replacable(item) == Len(item.subst) > 0

\* Mutant of replacable_only: no item counts as rewrite-only
replacable_only_Never(item) == FALSE

replacable_only(item) ==
    Len(item.subst) > 0 /\ Len(item.include) = 0 /\ Len(item.exclude) = 0

\* Mutants of continuable: the chain flag is ignored
continuable_Always(item) == TRUE

continuable_Never(item) == FALSE

continuable(item) == item.cont

\* PatternReplaceItem(pattern, subst, cont)
PatternReplaceItem(pattern, subst, cont) ==
    [pattern |-> pattern, subst |-> subst, cont |-> cont]

\* The body of the loop of PatternItem.split for one token; acc = [inc, exc, rep].
\* cont is "None", "True" or "False" (the optional boolean of the caller).
SplitToken(acc, name, token, cont) ==
    LET pattern == Strip(token)
        items == Split(pattern, pattern[1])
    IN  IF is_replace_str(pattern)
        THEN IF Len(items) = 4
             THEN [acc EXCEPT !.rep = Append(@,
                      PatternReplaceItem(
                          Or(items[2], name), items[3],
                          IF cont # "None" THEN cont = "True"
                          ELSE StartsWith(pattern, CONN_REPLACE_DELIMITER)))]
             ELSE acc
        ELSE IF StartsWith(pattern, OPPOSITE_DELIMITER)
        THEN [acc EXCEPT !.exc = Append(@, Tail(pattern))]
        ELSE IF pattern # << >>
        THEN [acc EXCEPT !.inc = Append(@, pattern)]
        ELSE acc

RECURSIVE SplitTokens(_, _, _, _)
SplitTokens(acc, name, tokens, cont) ==
    IF tokens = << >> THEN acc
    ELSE SplitTokens(SplitToken(acc, name, Head(tokens), cont), name, Tail(tokens), cont)

\* PatternItem.split(self, patterns, cont): [inc, exc, rep]
PatternItem_split(name, patterns, cont) ==
    SplitTokens([inc |-> << >>, exc |-> << >>, rep |-> << >>], name,
                Split(Strip(patterns), PATTERN_DELIMITER), cont)

\* PatternItem.add(self, patterns, exclude, subst, cont); subst is << >> or
\* the one-element sequence of a PatternReplaceItem
PatternItem_add(item, patterns, exclude, subst, cont) ==
    LET r == PatternItem_split(item.name, patterns, cont)
        inc == IF exclude THEN r.exc ELSE r.inc
        exc == IF exclude THEN r.inc ELSE r.exc
    IN  [item EXCEPT !.include = @ \o inc,
                     !.exclude = @ \o exc,
                     !.subst = @ \o r.rep \o subst]

\* PatternItem(category, patterns, exclude, name)
PatternItem_init(category, patterns, exclude, name) ==
    IF Truthy(patterns)
    THEN PatternItem_add(PatternItem_new(category, name), patterns, exclude, << >>, "None")
    ELSE PatternItem_new(category, name)

\* Mutant of MatchCandidate: the exclude patterns are not consulted
MatchCandidate_NoExclude(item, candidate) ==
    LET opposite == StartsWith(candidate, OPPOSITE_DELIMITER)
        pattern == IF opposite THEN Tail(candidate) ELSE candidate
    IN  IF \E i \in 1..Len(item.include) : RegexSearch(item.include[i], pattern)
        THEN IF opposite THEN "False" ELSE "True"
        ELSE IF Len(item.include) > 0
        THEN IF opposite THEN "True" ELSE "False"
        ELSE IF Len(item.exclude) > 0
        THEN IF opposite THEN "False" ELSE "True"
        ELSE "next"

\* PatternItem.match with the two loops of lines 138-144 exchanged
MatchCandidate_ExcludeFirst(item, candidate) ==
    LET opposite == StartsWith(candidate, OPPOSITE_DELIMITER)
        pattern == IF opposite THEN Tail(candidate) ELSE candidate
    IN  IF \E e \in 1..Len(item.exclude) : RegexSearch(item.exclude[e], pattern)
        THEN IF opposite THEN "True" ELSE "False"
        ELSE IF \E i \in 1..Len(item.include) : RegexSearch(item.include[i], pattern)
        THEN IF opposite THEN "False" ELSE "True"
        ELSE IF Len(item.include) > 0
        THEN IF opposite THEN "True" ELSE "False"
        ELSE IF Len(item.exclude) > 0
        THEN IF opposite THEN "False" ELSE "True"
        ELSE "next"

\* One candidate of PatternItem.match; "next" when the loop goes on
MatchCandidate(item, candidate) ==
    LET opposite == StartsWith(candidate, OPPOSITE_DELIMITER)
        pattern == IF opposite THEN Tail(candidate) ELSE candidate
    IN  IF \E i \in 1..Len(item.include) : RegexSearch(item.include[i], pattern)
        THEN IF opposite THEN "False" ELSE "True"
        ELSE IF \E e \in 1..Len(item.exclude) : RegexSearch(item.exclude[e], pattern)
        THEN IF opposite THEN "True" ELSE "False"
        ELSE IF Len(item.include) > 0
        THEN IF opposite THEN "True" ELSE "False"
        ELSE IF Len(item.exclude) > 0
        THEN IF opposite THEN "False" ELSE "True"
        ELSE "next"

\* PatternItem.match going on to the next candidate after one was refused
MatchCandidates_Any(item, candidates) ==
    \/ \E i \in 1..Len(candidates) : MatchCandidate(item, candidates[i]) = "True"
    \/ \A i \in 1..Len(candidates) : MatchCandidate(item, candidates[i]) = "next"

RECURSIVE MatchCandidates(_, _)
MatchCandidates(item, candidates) ==
    IF candidates = << >> THEN TRUE
    ELSE IF MatchCandidate(item, Head(candidates)) = "next"
    THEN MatchCandidates(item, Tail(candidates))
    ELSE MatchCandidate(item, Head(candidates)) = "True"

\* PatternItem.match(self, patterns)
PatternItem_match(item, patterns) ==
    MatchCandidates(item, Split(patterns, PATTERN_DELIMITER))

\* PatternItem.replace(self, value) from substitution k on.  r = [value, cont,
\* raised, steps]: re.sub raises TypeError on a pattern that is None; steps
\* records each substitution applied (its chain flag, input and output).
RECURSIVE ReplaceFrom(_, _, _)
ReplaceFrom(item, k, r) ==
    IF k > Len(item.subst) \/ r.raised THEN r
    ELSE LET rep == item.subst[k]
         IN  IF rep.pattern = None
             THEN [r EXCEPT !.raised = TRUE]
             ELSE LET out == RegexSub(rep.pattern, rep.subst, r.value)
                  IN  ReplaceFrom(item, k + 1,
                          [value |-> out, cont |-> rep.cont, raised |-> FALSE,
                           steps |-> Append(r.steps,
                               [k |-> k, cont |-> rep.cont, inp |-> r.value, out |-> out])])

\* PatternItem.replace without the assignment of line 157
PatternItem_replace_KeepFlag(item, value) ==
    [ReplaceFrom(item, 1,
        [value |-> value, cont |-> item.cont, raised |-> FALSE, steps |-> << >>])
     EXCEPT !.cont = item.cont]

PatternItem_replace(item, value) ==
    ReplaceFrom(item, 1,
        [value |-> value, cont |-> item.cont, raised |-> FALSE, steps |-> << >>])

\* PatternItem.__str__
PatternItem_str(item) ==
    LET excl == [i \in 1..Len(item.exclude) |-> << OPPOSITE_DELIMITER >> \o item.exclude[i]]
        d(rp) == IF rp.cont THEN CONN_REPLACE_DELIMITER ELSE REPLACEMENT_DELIMITER
        subs == [i \in 1..Len(item.subst) |->
                    << d(item.subst[i]) >> \o Or(item.subst[i].pattern, << >>)
                    \o << d(item.subst[i]) >> \o Or(item.subst[i].subst, << >>)
                    \o << d(item.subst[i]) >>]
    IN  (IF Truthy(item.category) THEN item.category \o << CATEGORY_DELIMITER >> ELSE << >>)
        \o (IF Truthy(item.name) THEN item.name \o << ITEM_NAME_DELIMITER >> ELSE << >>)
        \o Join(item.include \o excl \o subs, PATTERN_DELIMITER)

(***************************************************************************)
(* PatternFile: a definition file is [status, childNodes]; a node is       *)
(* [nodeName, attrs, childNodes]; an attribute that is not set reads "".    *)
(***************************************************************************)
\* _attr(node, attribute, default)
Attr(node, attribute, default) == Or(node.attrs[attribute], default)

\* str.lower() on the letters of the alphabet
LowerChar(ch) ==
    CASE ch = "T" -> "t"
      [] ch = "Y" -> "y"
      [] ch = "N" -> "n"
      [] ch = "F" -> "f"
      [] OTHER -> ch

Lower(s) == [i \in 1..Len(s) |-> LowerChar(s[i])]

\* _ensure_bool(value): "None", "True" or "False"
EnsureBool(value) ==
    IF value = None THEN "None"
    ELSE IF Lower(value) \in { <<"t","r","u","e">>, <<"y","e","s">> } THEN "True"
    ELSE IF Lower(value) \in { <<"f","a","l","s","e">>, <<"n","o">> } THEN "False"
    ELSE "None"

\* the parent handed to parse_pattern when there is none
NoParent == [name |-> None, category |-> None, cont |-> None]

\* The _XmlPattern p of PatternFile.parse_pattern
XmlPattern(node, patterns, replacement) ==
    [name |-> Attr(node, "name", patterns.name),
     category |-> Attr(node, "category", patterns.category),
     value |-> Or(Attr(node, "value", None), Attr(node, "name", None)),
     replacement |->
        IF node.nodeName # "exclude-pattern" \/ replacement
        THEN Attr(node, "replace", None) ELSE None,
     cont |-> EnsureBool(Attr(node, "continue", patterns.cont))]

LeafNames == {"pattern", "exclude-pattern", "rp-pattern", "replace-pattern"}

\* PatternFile.parse_pattern(node, patterns, exclude, replacement) for a node
\* whose nodeName is in LeafNames
parse_pattern(node, patterns, exclude, replacement) ==
    LET p == XmlPattern(node, patterns, replacement)
    IN  IF p.replacement # None \/ is_replace_str(p.value)
        THEN IF Truthy(p.replacement)
             THEN PatternItem_add(PatternItem_new(p.category, p.name), << >>, FALSE,
                      << PatternReplaceItem(p.value, p.replacement, p.cont = "True") >>,
                      "None")
             ELSE PatternItem_add(PatternItem_new(p.category, p.name), p.value, FALSE,
                      << >>, p.cont)
        ELSE PatternItem_init(p.category, p.value, exclude \/ node.nodeName = "exclude-pattern",
                              p.name)

\* PatternFile.parse_pattern_str(node, patterns)
parse_pattern_str(node) ==
    IF node.nodeName \in LeafNames
    THEN PatternItem_str(parse_pattern(node, NoParent, FALSE, FALSE))
    ELSE << >>

GroupNames == {"patterns", "exclude-patterns", "rp-patterns", "replace-patterns"}

RECURSIVE ParseChildren(_, _, _, _)
ParseChildren(children, parent, exclude, replacement) ==
    IF children = << >> THEN << >>
    ELSE (IF Head(children).nodeName \in LeafNames
          THEN << parse_pattern(Head(children), parent, exclude, replacement) >>
          ELSE << >>)
         \o ParseChildren(Tail(children), parent, exclude, replacement)

\* PatternFile.parse_patterns(node): the items of the leaves of a group
parse_patterns(node) ==
    IF node.nodeName \in GroupNames
    THEN ParseChildren(node.childNodes,
             [name |-> Attr(node, "name", None),
              category |-> Attr(node, "category", None),
              cont |-> Attr(node, "continue", <<"f","a","l","s","e">>)],
             node.nodeName = "exclude-patterns",
             node.nodeName \in {"rp-patterns", "replace-patterns"})
    ELSE << >>

\* the items of all groups among the children of the document, in order
RECURSIVE LoadNodes(_)
LoadNodes(nodes) ==
    IF nodes = << >> THEN << >>
    ELSE (IF Head(nodes).nodeName \in {"patterns", "exclude-patterns", "replace-patterns"}
          THEN parse_patterns(Head(nodes)) ELSE << >>)
         \o LoadNodes(Tail(nodes))

\* PatternFile.load(filename): "None" when nothing is returned, else the list
\* of items in file order (patterns[pi.category] is the sub-list of category)
\* A file that cannot be opened makes xml.dom.minidom.parse raise IOError,
\* which `except (OSError, xml.parsers.expat.ExpatError)` does not catch (in
\* Python 2 IOError is not a subclass of OSError): raised is then TRUE.
PatternFile_load(file) ==
    IF file.status = "unreadable"
    THEN [none |-> TRUE, items |-> << >>, raised |-> TRUE]
    ELSE IF file.status # "ok" \/ file.childNodes = << >>
    THEN [none |-> TRUE, items |-> << >>, raised |-> FALSE]
    ELSE [none |-> FALSE, items |-> LoadNodes(file.childNodes), raised |-> FALSE]

(***************************************************************************)
(* Pattern: the store.  A dict is a function whose domain is the set of    *)
(* keys; categories[c][name] is an item, orders[c] a list of names.        *)
(***************************************************************************)
EmptyDict == [k \in {} |-> << >>]

\* d[k] = v
Put(d, k, v) == [x \in (DOMAIN d) \cup {k} |-> IF x = k THEN v ELSE d[x]]

\* what _ensure_item returns when it returns None
NoItem == [none |-> TRUE]

Missing == <<"Missing">>

\* `if item:` on what _ensure_item returned: None is falsy, and so is an item
\* whose __len__ is 0
ItemTruthy(item) == item # NoItem /\ PatternItem_len(item) > 0

\* Mutant of OrderSearch: the last recorded name that matches wins
RECURSIVE OrderSearch_LastWins(_, _, _)
OrderSearch_LastWins(order, i, name) ==
    IF i > Len(order) THEN 0
    ELSE IF OrderSearch_LastWins(order, i + 1, name) # 0
    THEN OrderSearch_LastWins(order, i + 1, name)
    ELSE IF order[i] # None /\ Truthy(name) /\ RegexSearch(order[i], name) THEN i
    ELSE 0

\* The loop of Pattern._ensure_item over self.orders[category] from index i:
\* the index of the first name that matches as a regex, 0 when none does
RECURSIVE OrderSearch(_, _, _)
OrderSearch(order, i, name) ==
    IF i > Len(order) THEN 0
    ELSE IF order[i] # None /\ Truthy(name) /\ RegexSearch(order[i], name) THEN i
    ELSE OrderSearch(order, i + 1, name)

\* Mutant of EnsureKey: the regex names are tried before the exact key
EnsureKey_RegexFirst(categories, orders, category, name, strict) ==
    LET c == ensure_category(category)
    IN  IF c \in DOMAIN categories
        THEN IF OrderSearch(orders[c], 1, name) # 0
             THEN orders[c][OrderSearch(orders[c], 1, name)]
             ELSE IF name \in DOMAIN categories[c] THEN name
             ELSE IF ~strict /\ None \in DOMAIN categories[c] THEN None
             ELSE Missing
        ELSE Missing

\* Mutant of EnsureKey: the default item is tried before the names
EnsureKey_DefaultFirst(categories, orders, category, name, strict) ==
    LET c == ensure_category(category)
    IN  IF c \in DOMAIN categories
        THEN IF ~strict /\ None \in DOMAIN categories[c] THEN None
             ELSE IF name \in DOMAIN categories[c] THEN name
             ELSE IF OrderSearch(orders[c], 1, name) # 0
             THEN orders[c][OrderSearch(orders[c], 1, name)]
             ELSE Missing
        ELSE Missing

\* Pattern._ensure_item(category, name, strict), as the key of the item it
\* returns in bucket ensure_category(category); Missing when it returns None
EnsureKey(categories, orders, category, name, strict) ==
    LET c == ensure_category(category)
    IN  IF c \in DOMAIN categories
        THEN IF name \in DOMAIN categories[c] THEN name
             ELSE IF OrderSearch(orders[c], 1, name) # 0
             THEN orders[c][OrderSearch(orders[c], 1, name)]
             ELSE IF ~strict /\ None \in DOMAIN categories[c] THEN None
             ELSE Missing
        ELSE Missing

Pattern_ensure_item(categories, orders, category, name, strict) ==
    LET key == EnsureKey(categories, orders, category, name, strict)
    IN  IF key = Missing THEN NoItem
        ELSE categories[ensure_category(category)][key]

\* The body of the loop of Pattern.add over a list of strings, for one string;
\* st = [categories, orders]
AddString(st, pattern, exclude) ==
    IF Find(pattern, CATEGORY_DELIMITER) > 0
    THEN LET cv == SplitOnce(pattern, CATEGORY_DELIMITER)
             named == Find(cv[2], ITEM_NAME_DELIMITER) > 0
             name == IF named THEN SplitOnce(cv[2], ITEM_NAME_DELIMITER)[1] ELSE None
             value == IF named THEN SplitOnce(cv[2], ITEM_NAME_DELIMITER)[2] ELSE cv[2]
             category == ensure_category(cv[1])
             fresh == category \notin DOMAIN st.categories
             categories == IF fresh THEN Put(st.categories, category, EmptyDict)
                           ELSE st.categories
             orders == IF fresh THEN Put(st.orders, category, << >>) ELSE st.orders
             key == EnsureKey(categories, orders, category, name, TRUE)
             item == Pattern_ensure_item(categories, orders, category, name, TRUE)
         IN  IF ItemTruthy(item)
             THEN [categories |->
                      [categories EXCEPT ![ensure_category(category)][key] =
                          PatternItem_add(item, value, exclude, << >>, "None")],
                   orders |-> orders]
             ELSE [categories |->
                      [categories EXCEPT ![category] =
                          Put(@, name, PatternItem_init(category, value, exclude, name))],
                   orders |-> [orders EXCEPT ![category] = Append(@, name)]]
    ELSE st

RECURSIVE AddStrings(_, _, _)
AddStrings(st, patterns, exclude) ==
    IF patterns = << >> THEN st
    ELSE AddStrings(AddString(st, Head(patterns), exclude), Tail(patterns), exclude)

\* Mutant of AddItems: the item is stored but its name is not recorded
RECURSIVE AddItems_NoOrder(_, _)
AddItems_NoOrder(st, items) ==
    IF items = << >> THEN st
    ELSE LET item == Head(items)
             category == item.category
             fresh == category \notin DOMAIN st.categories
             categories == IF fresh THEN Put(st.categories, category, EmptyDict)
                           ELSE st.categories
             orders == IF fresh THEN Put(st.orders, category, << >>) ELSE st.orders
         IN  AddItems_NoOrder(
                 [categories |-> [categories EXCEPT ![category] = Put(@, item.name, item)],
                  orders |-> orders],
                 Tail(items))

\* The dict branch of Pattern.add, for the items of the loaded lists
RECURSIVE AddItems(_, _)
AddItems(st, items) ==
    IF items = << >> THEN st
    ELSE LET item == Head(items)
             category == item.category
             fresh == category \notin DOMAIN st.categories
             categories == IF fresh THEN Put(st.categories, category, EmptyDict)
                           ELSE st.categories
             orders == IF fresh THEN Put(st.orders, category, << >>) ELSE st.orders
         IN  AddItems([categories |-> [categories EXCEPT ![category] = Put(@, item.name, item)],
                       orders |-> [orders EXCEPT ![category] = Append(@, item.name)]],
                      Tail(items))

\* Mutant of Pattern_add: a list is given up at its first string without a
\* category
Pattern_add_StopAtBad(st, patterns, exclude) ==
    IF patterns.type = "str" THEN AddStrings(st, << patterns.value >>, exclude)
    ELSE IF patterns.type \in {"list", "tuple"}
    THEN IF \E k \in 1..Len(patterns.value) :
                Find(patterns.value[k], CATEGORY_DELIMITER) <= 0
         THEN st
         ELSE AddStrings(st, patterns.value, exclude)
    ELSE st

\* Pattern.add(patterns, exclude) by the type of patterns: one string, a list
\* of strings, None, or an object of another type (logged and ignored)
Pattern_add(st, patterns, exclude) ==
    IF patterns.type = "str" THEN AddStrings(st, << patterns.value >>, exclude)
    ELSE IF patterns.type \in {"list", "tuple"} THEN AddStrings(st, patterns.value, exclude)
    ELSE st

\* Pattern.load(pattern_file)
Pattern_load(st, file) ==
    IF PatternFile_load(file).none THEN st
    ELSE AddItems(st, PatternFile_load(file).items)

\* One pass of Pattern.match over the categories with lookup name `lookup`:
\* [existed, ret]
MatchPass(categories, orders, cats, value, lookup) ==
    LET item(k) == Pattern_ensure_item(categories, orders, cats[k], lookup, FALSE)
        used(k) == ItemTruthy(item(k)) /\ ~replacable_only(item(k))
    IN  [existed |-> \E k \in 1..Len(cats) : used(k),
         ret |-> \E k \in 1..Len(cats) : used(k) /\ PatternItem_match(item(k), value)]

\* Mutant of Pattern_match: the retry with the value as the lookup name is made
\* whether or not a name was given
Pattern_match_AlwaysRetry(categories, orders, cats, value, name) ==
    LET first == MatchPass(categories, orders, Split(cats, ","), value, name)
        second == MatchPass(categories, orders, Split(cats, ","), value, value)
    IN  IF first.existed THEN first.ret
        ELSE IF second.existed THEN second.ret
        ELSE TRUE

\* Mutant of Pattern_match: `return ret`, without the default for a miss
Pattern_match_NoDefault(categories, orders, cats, value, name) ==
    LET first == MatchPass(categories, orders, Split(cats, ","), value, name)
        second == MatchPass(categories, orders, Split(cats, ","), value, value)
    IN  IF first.existed THEN first.ret
        ELSE IF name = None THEN second.ret
        ELSE FALSE

\* Pattern.match(categories, value, name)
Pattern_match(categories, orders, cats, value, name) ==
    LET first == MatchPass(categories, orders, Split(cats, ","), value, name)
        second == MatchPass(categories, orders, Split(cats, ","), value, value)
    IN  IF first.existed THEN first.ret
        ELSE IF name = None THEN (IF second.existed THEN second.ret ELSE TRUE)
        ELSE TRUE

(***************************************************************************)
(* Pattern.replace.  r = [categories, value, replaced, done, raised, log]: *)
(* categories carries the cont flags that PatternItem.replace sets, done   *)
(* says that a return was executed, raised that re.sub raised, and log     *)
(* lists the substitutions applied: the position ci of the category in the *)
(* argument, the key of the item, how the item was found ("named": the     *)
(* loop over orders, "resolved": _ensure_item) and the step.               *)
(***************************************************************************)
LogSteps(steps, ci, key, via) ==
    [i \in 1..Len(steps) |->
        [ci |-> ci, key |-> key, via |-> via, k |-> steps[i].k,
         cont |-> steps[i].cont, inp |-> steps[i].inp, out |-> steps[i].out]]

\* lines 414-422: the item under `pattern` is applied when it has substitutions
ReplaceNamed(r, c, pattern, ci) ==
    LET item == r.categories[c][pattern]
        res == PatternItem_replace(item, r.value)
        replaced == r.replaced \/ res.value # r.value
    IN  IF ~replacable(item) THEN r
        ELSE [categories |-> [r.categories EXCEPT ![c][pattern].cont = res.cont],
              value |-> res.value,
              replaced |-> replaced,
              done |-> res.raised \/ (replaced /\ ~continuable([item EXCEPT !.cont = res.cont])),
              raised |-> res.raised,
              log |-> r.log \o LogSteps(res.steps, ci, pattern, "named")]

\* lines 411-422: the loop over self.orders[category] from index i
RECURSIVE ReplaceOrder(_, _, _, _, _, _)
ReplaceOrder(r, orders, c, i, name, ci) ==
    IF r.done \/ i > Len(orders[c]) THEN r
    ELSE IF orders[c][i] # None /\ Truthy(name) /\ RegexSearch(orders[c][i], name)
    THEN ReplaceOrder(ReplaceNamed(r, c, orders[c][i], ci), orders, c, i + 1, name, ci)
    ELSE ReplaceOrder(r, orders, c, i + 1, name, ci)

\* lines 425-428 without the return of line 428: the loop over the
\* categories goes on after the resolved item was applied
ReplaceResolved_GoOn(r, orders, c, name, ci) ==
    LET key == EnsureKey(r.categories, orders, c, name, FALSE)
        item == Pattern_ensure_item(r.categories, orders, c, name, FALSE)
        res == PatternItem_replace(item, r.value)
    IN  IF ~r.replaced /\ ItemTruthy(item) /\ replacable(item)
        THEN [categories |-> [r.categories EXCEPT ![ensure_category(c)][key].cont = res.cont],
              value |-> res.value,
              replaced |-> r.replaced,
              done |-> res.raised,
              raised |-> res.raised,
              log |-> r.log \o LogSteps(res.steps, ci, key, "resolved")]
        ELSE r

\* lines 425-428: ordinary resolution when nothing was replaced so far
ReplaceResolved(r, orders, c, name, ci) ==
    LET key == EnsureKey(r.categories, orders, c, name, FALSE)
        item == Pattern_ensure_item(r.categories, orders, c, name, FALSE)
        res == PatternItem_replace(item, r.value)
    IN  IF ~r.replaced /\ ItemTruthy(item) /\ replacable(item)
        THEN [categories |-> [r.categories EXCEPT ![ensure_category(c)][key].cont = res.cont],
              value |-> res.value,
              replaced |-> r.replaced,
              done |-> TRUE,
              raised |-> res.raised,
              log |-> r.log \o LogSteps(res.steps, ci, key, "resolved")]
        ELSE r

\* lines 407-428: the loop over categories.split(',') from index ci
RECURSIVE ReplaceCategories(_, _, _, _, _)
ReplaceCategories(r, orders, cats, ci, name) ==
    IF r.done \/ ci > Len(cats) THEN r
    ELSE LET c == ensure_category(cats[ci])
             named == IF c \in DOMAIN r.categories
                      THEN ReplaceOrder(r, orders, c, 1, name, ci) ELSE r
             resolved == IF named.done THEN named
                         ELSE ReplaceResolved(named, orders, c, name, ci)
         IN  ReplaceCategories(resolved, orders, cats, ci + 1, name)

\* Pattern.replace(categories, value, name): the value returned is .value
\* unless .raised
Pattern_replace(categories, orders, cats, value, name) ==
    ReplaceCategories(
        [categories |-> categories, value |-> value, replaced |-> FALSE,
         done |-> FALSE, raised |-> FALSE, log |-> << >>],
        orders, Split(cats, ","), 1, name)

(***************************************************************************)
(* The state machine: a Pattern object and the calls made on it.           *)
(*   categories, orders : the two dicts of the Pattern object              *)
(*   hist               : the add / load calls made so far                 *)
(*   call               : the query in progress (its arguments and what it *)
(*                        returned), Idle when the caller holds none       *)
(* and the objects of one SubCommandWithThread.run_with_thread call, which *)
(* runs the task function on each task, jobs at a time:                    *)
(*   main               : the frame of run_with_thread (its arguments, its *)
(*                        position, the index of the next task, ret)       *)
(*   sem                : the permits left in threading.Semaphore(jobs)    *)
(*   event              : threading.Event, set when a task has raised      *)
(*   threads            : the threads started, each with its position in   *)
(*                        _run                                             *)
(***************************************************************************)
VARIABLES categories, orders, hist, call, main, sem, event, threads

pool == << main, sem, event, threads >>

vars == << categories, orders, hist, call, pool >>

\* run_with_thread has not been called
NotCalled == [pc |-> "idle", jobs |-> 0, tasks |-> 0, i |-> 0, ret |-> TRUE, joined |-> {}]

NoDispatch ==
    /\ main = NotCalled
    /\ sem = 0
    /\ event = FALSE
    /\ threads = << >>

\* how many add / load calls a run makes
MaxCalls == 2

Idle == [op |-> "idle"]

\* Pattern.__init__ with neither pattern nor pattern_file
Init ==
    /\ categories = EmptyDict
    /\ orders = EmptyDict
    /\ hist = << >>
    /\ call = Idle
    /\ NoDispatch

Store == [categories |-> categories, orders |-> orders]

\* Pattern.add(patterns, exclude) with a list of strings
Add(patterns, exclude) ==
    /\ call = Idle
    /\ Len(hist) < MaxCalls
    /\ categories' = AddStrings(Store, patterns, exclude).categories
    /\ orders' = AddStrings(Store, patterns, exclude).orders
    /\ hist' = Append(hist, [op |-> "add", arg |-> patterns, exclude |-> exclude])
    /\ UNCHANGED << call, pool >>

\* Pattern.load(pattern_file)
Load(file) ==
    /\ call = Idle
    /\ Len(hist) < MaxCalls
    /\ categories' = Pattern_load(Store, file).categories
    /\ orders' = Pattern_load(Store, file).orders
    /\ hist' = Append(hist, [op |-> "load", arg |-> file.id, exclude |-> FALSE])
    /\ call' = IF PatternFile_load(file).raised
               THEN [op |-> "load", arg |-> file.id, raised |-> "IOError"]
               ELSE call
    /\ UNCHANGED pool

\* Pattern.add(patterns, exclude) with patterns = [type, value]: a str, a
\* list or tuple of str, None, or an object of another type
AddObject(patterns, exclude) ==
    /\ call = Idle
    /\ Len(hist) < MaxCalls
    /\ categories' = Pattern_add(Store, patterns, exclude).categories
    /\ orders' = Pattern_add(Store, patterns, exclude).orders
    /\ hist' = Append(hist, [op |-> "add", arg |-> patterns.value, exclude |-> exclude,
                             type |-> patterns.type])
    /\ UNCHANGED << call, pool >>

\* Pattern._ensure_item(category, name, strict)
Resolve(category, name, strict) ==
    /\ call = Idle
    /\ call' = [op |-> "_ensure_item", category |-> category, name |-> name,
                strict |-> strict,
                ret |-> Pattern_ensure_item(categories, orders, category, name, strict)]
    /\ UNCHANGED << categories, orders, hist, pool >>

\* Pattern.match(categories, value, name)
Match(cats, value, name) ==
    /\ call = Idle
    /\ call' = [op |-> "match", cats |-> cats, value |-> value, name |-> name,
                ret |-> Pattern_match(categories, orders, cats, value, name)]
    /\ UNCHANGED << categories, orders, hist, pool >>

\* Pattern.replace(categories, value, name)
Replace(cats, value, name) ==
    LET r == Pattern_replace(categories, orders, cats, value, name)
    IN  /\ call = Idle
        /\ call' = [op |-> "replace", cats |-> cats, value |-> value, name |-> name,
                    raised |-> r.raised, ret |-> r.value, log |-> r.log]
        /\ categories' = r.categories
        /\ UNCHANGED << orders, hist, pool >>

\* Pattern.add(pattern) with one string, on the store as constructed
Parse(pattern) ==
    /\ hist = << >>
    /\ Add(<< pattern >>, FALSE)

\* str(item) of the item stored in category c under the key n
Str(c, n) ==
    /\ call = Idle
    /\ c \in DOMAIN categories
    /\ n \in DOMAIN categories[c]
    /\ call' = [op |-> "__str__", item |-> categories[c][n],
                ret |-> PatternItem_str(categories[c][n])]
    /\ UNCHANGED << categories, orders, hist, pool >>

\* Pattern.add(text) on a fresh store, for the text that str(item) returned
Reparse ==
    /\ call.op = "__str__"
    /\ call' = [op |-> "reparse", item |-> call.item, text |-> call.ret,
                ret |-> AddString([categories |-> EmptyDict, orders |-> EmptyDict],
                                  call.ret, FALSE)]
    /\ UNCHANGED << categories, orders, hist, pool >>

\* the caller takes the result and is ready for its next call
Return ==
    /\ call # Idle
    /\ call' = Idle
    /\ UNCHANGED << categories, orders, hist, pool >>

\* The calls of a run, drawn from in = [adds, files, lookups, matches, replaces]
NextOn(in) ==
    \/ \E a \in in.adds : Add(a[1], a[2])
    \/ \E f \in in.files : Load(f)
    \/ \E l \in in.lookups : Resolve(l[1], l[2], l[3])
    \/ \E m \in in.matches : Match(m[1], m[2], m[3])
    \/ \E m \in in.replaces : Replace(m[1], m[2], m[3])
    \/ Return

(***************************************************************************)
(* The strings and definition files the runs use                           *)
(***************************************************************************)
\* "a"
S_a == <<"a">>
\* "b"
S_b == <<"b">>
\* "z"
S_z == <<"z">>
\* "a-rp"
S_a_rp == <<"a","-","r","p">>
\* "a,b"
S_a_b == <<"a",",","b">>
\* "b,a"
S_b_a == <<"b",",","a">>
\* "f"
S_f == <<"f">>
\* "fo"
S_fo == <<"f","o">>
\* "bar"
S_bar == <<"b","a","r">>
\* "baz"
S_baz == <<"b","a","z">>
\* "x"
S_x == <<"x">>
\* ""
S_empty == << >>
\* "project"
S_project == <<"p","r","o","j","e","c","t">>
\* "libfoo"
S_libfoo == <<"l","i","b","f","o","o">>
\* "lib-foo"
S_lib_foo == <<"l","i","b","-","f","o","o">>
\* "other"
S_other == <<"o","t","h","e","r">>
\* "y"
S_y == <<"y">>
\* "n"
S_n == <<"n">>

\* "a:f@x"
AddExact == <<"a",":","f","@","x">>
\* "a:.*@!x"
AddRegexAll == <<"a",":",".","*","@","!","x">>
\* "a:g*@y"
AddRegexStar == <<"a",":","g","*","@","y">>
\* "a:!bar"
AddExcludeBar == <<"a",":","!","b","a","r">>
\* "a:bar@~a~b~"
AddRewriteBar == <<"a",":","b","a","r","@","~","a","~","b","~">>
\* "a-rp-rp:f@v"
AddTwoSuffixes == <<"a","-","r","p","-","r","p",":","f","@","v">>
\* "b:~a~b~"
AddRewriteDefault == <<"b",":","~","a","~","b","~">>
\* "a:bar"
AddBar == <<"a",":","b","a","r">>
\* "project:libfoo@.*"
AddLibfoo == <<"p","r","o","j","e","c","t",":","l","i","b","f","o","o","@",".","*">>
\* "project:~libfoo~lib-foo~"
AddLibfooRewrite == <<"p","r","o","j","e","c","t",":","~","l","i","b","f","o","o","~","l","i","b","-","f","o","o","~">>
\* "a:f@~x~y~"
AddNamedStop == <<"a",":","f","@","~","x","~","y","~">>
\* "a:f@=x=y="
AddNamedChain == <<"a",":","f","@","=","x","=","y","=">>
\* "a:=x=y="
AddDefaultChain == <<"a",":","=","x","=","y","=">>
\* "a:f@~x~y~,=q=r="
AddNamedMixed == <<"a",":","f","@","~","x","~","y","~",",","=","q","=","r","=">>
\* "b:f@=y=z="
AddNamedChainB == <<"b",":","f","@","=","y","=","z","=">>
\* "b:=y=z="
AddDefaultChainB == <<"b",":","=","y","=","z","=">>
\* "b-rp:f.*@~y~w~"
AddRegexStopB == <<"b","-","r","p",":","f",".","*","@","~","y","~","w","~">>

\* the attributes of a node; an attribute that is not set reads ""
Attrs(name, category, value, replace, continue) ==
    [name |-> name, category |-> category, value |-> value, replace |-> replace,
     continue |-> continue]

Leaf(nodeName, value) ==
    [nodeName |-> nodeName, attrs |-> Attrs(<< >>, << >>, value, << >>, << >>),
     childNodes |-> << >>]

\* the text between two elements
TextNode == [nodeName |-> "#text", attrs |-> Attrs(<< >>, << >>, << >>, << >>, << >>),
             childNodes |-> << >>]

\* <exclude-patterns category="a" name="n">
\*   <pattern value="x"/> <pattern value="y"/>
\* </exclude-patterns>
FileExcludeGroup ==
    [id |-> "FileExcludeGroup", status |-> "ok",
     childNodes |-> <<
        [nodeName |-> "exclude-patterns",
         attrs |-> Attrs(S_n, S_a, << >>, << >>, << >>),
         childNodes |-> << TextNode, Leaf("pattern", S_x), TextNode,
                           Leaf("pattern", S_y), TextNode >>] >>]

\* <patterns category="a-rp" name="f"> <pattern value="x"/> </patterns>
FileSuffixCategory ==
    [id |-> "FileSuffixCategory", status |-> "ok",
     childNodes |-> <<
        [nodeName |-> "patterns",
         attrs |-> Attrs(S_f, S_a_rp, << >>, << >>, << >>),
         childNodes |-> << TextNode, Leaf("pattern", S_x), TextNode >>] >>]

NamedLeaf(nodeName, name, value) ==
    [nodeName |-> nodeName, attrs |-> Attrs(name, << >>, value, << >>, << >>),
     childNodes |-> << >>]

\* <patterns category="a">
\*   <pattern name=".*" value="y"/> <pattern name="f" value="x"/>
\* </patterns>
FileRegexFirst ==
    [id |-> "FileRegexFirst", status |-> "ok",
     childNodes |-> <<
        [nodeName |-> "patterns",
         attrs |-> Attrs(<< >>, S_a, << >>, << >>, << >>),
         childNodes |-> << TextNode, NamedLeaf("pattern", <<".","*">>, S_y), TextNode,
                           NamedLeaf("pattern", S_f, S_x), TextNode >>] >>]

\* a file that is not well-formed XML
FileMalformed == [id |-> "FileMalformed", status |-> "malformed", childNodes |-> << >>]

\* "a:x@!x"
AddValueKey == <<"a",":","x","@","!","x">>

\* a path that cannot be opened
FileUnreadable == [id |-> "FileUnreadable", status |-> "unreadable", childNodes |-> << >>]

\* a document without child nodes
FileNoRoot == [id |-> "FileNoRoot", status |-> "ok", childNodes |-> << >>]

\* "a:f.*@y"
AddRegexName == <<"a",":","f",".","*","@","y">>
\* "a:fo@x"
AddFo == <<"a",":","f","o","@","x">>
\* "a:~x~y~z~"
AddFourDelimiters == <<"a",":","~","x","~","y","~","z","~">>
\* "a:~x~y"
AddTwoDelimiters == <<"a",":","~","x","~","y">>
\* "a:=x"
AddOneDelimiter == <<"a",":","=","x">>
\* "a:f@,"
AddOnlyComma == <<"a",":","f","@",",">>
\* "a:f@"
AddNoValue == <<"a",":","f","@">>
\* "x"
AddNoCategory == <<"x">>
\* ":x"
AddEmptyCategory == <<":","x">>
\* "a-rp:f@x"
AddSuffix == <<"a","-","r","p",":","f","@","x">>
\* "a-replace:f@y"
AddReplaceSuffix == <<"a","-","r","e","p","l","a","c","e",":","f","@","y">>
\* "a-replace"
S_a_replace == <<"a","-","r","e","p","l","a","c","e">>

(***************************************************************************)
(* Spec: stores built from name-keyed filters, queried by _ensure_item,    *)
(* match and replace                                                       *)
(***************************************************************************)
LookupCalls ==
    [adds |-> { << << AddExact >>, FALSE >>, << << AddRegexAll >>, FALSE >>,
                << << AddRegexStar >>, FALSE >>, << << AddExcludeBar >>, FALSE >>,
                << << AddRewriteBar >>, FALSE >>, << << AddTwoSuffixes >>, FALSE >>,
                << << AddRewriteDefault >>, FALSE >>, << << AddBar >>, TRUE >>,
                << << AddValueKey >>, FALSE >> },
     files |-> { FileExcludeGroup, FileSuffixCategory, FileRegexFirst, FileMalformed },
     lookups |-> { S_a, S_a_rp } \X { None, S_empty, S_f, S_fo, S_bar } \X BOOLEAN,
     matches |-> { S_a, S_b, S_a_b, S_z } \X { S_bar, S_baz, S_x } \X { None, S_bar, S_f },
     replaces |-> { << S_z, S_x, None >>, << S_a, S_a, S_bar >>, << S_b, S_a, None >>,
                    << S_a_b, S_bar, S_f >> }]

Spec == Init /\ [][NextOn(LookupCalls)]_vars

(***************************************************************************)
(* SpecReplace: stores built from substitutions, chained and not, queried  *)
(* by replace                                                              *)
(***************************************************************************)
ReplaceCalls ==
    [adds |-> { << << AddLibfoo >>, FALSE >>, << << AddLibfooRewrite >>, FALSE >>,
                << << AddNamedStop >>, FALSE >>, << << AddNamedChain >>, FALSE >>,
                << << AddDefaultChain >>, FALSE >>, << << AddNamedMixed >>, FALSE >>,
                << << AddNamedChainB >>, FALSE >>, << << AddDefaultChainB >>, FALSE >>,
                << << AddRegexStopB >>, FALSE >> },
     files |-> { FileSuffixCategory },
     lookups |-> { << S_project, S_libfoo, FALSE >>, << S_a, S_f, FALSE >> },
     matches |-> { << S_project, S_libfoo, S_libfoo >>, << S_project, S_other, S_other >> },
     replaces |-> { << S_project, S_libfoo, S_libfoo >> }
                  \cup ({ S_a_b, S_b_a, S_a } \X { S_x, S_y } \X { None, S_f, S_fo })]

SpecReplace == Init /\ [][NextOn(ReplaceCalls)]_vars

(***************************************************************************)
(* Claims about resolution and match (checked under Spec)                  *)
(***************************************************************************)
\* the names recorded in orders[c] that match n as regular expressions
RegexNames(c, n) ==
    { i \in 1..Len(orders[c]) :
        orders[c][i] # None /\ n # None /\ RegexSearch(orders[c][i], n) }

Least(S) == CHOOSE i \in S : \A j \in S : i <= j

\* what a lookup falls back to when no name applies
DefaultOrNothing(c, strict) ==
    IF ~strict /\ None \in DOMAIN categories[c] THEN categories[c][None] ELSE NoItem

C3_FirstRegexWins_AsStated ==
    call.op = "_ensure_item" =>
        LET c == ensure_category(call.category)
        IN  (c \in DOMAIN categories /\ call.name \notin DOMAIN categories[c]) =>
              LET M == RegexNames(c, call.name)
              IN  /\ Cardinality(M) >= 2 => call.ret = categories[c][orders[c][Least(M)]]
                  /\ (None \in DOMAIN categories[c] /\ call.ret = categories[c][None])
                        => (M = {} /\ ~call.strict)
                  /\ (M = {} /\ call.strict) => call.ret = NoItem

\* C3 amended: for a lookup name that is not an exact key, a non-empty name
\* that one or more recorded regex names match gets the item of the first
\* recorded one; otherwise (no regex name matches, or the name is empty or
\* absent) the default item is returned if strict is false and there is one,
\* and nothing else.
C3_FirstRegexWins ==
    call.op = "_ensure_item" =>
        LET c == ensure_category(call.category)
        IN  (c \in DOMAIN categories /\ call.name \notin DOMAIN categories[c]) =>
              LET M == RegexNames(c, call.name)
              IN  IF call.name # << >> /\ M # {}
                  THEN call.ret = categories[c][orders[c][Least(M)]]
                  ELSE call.ret = DefaultOrNothing(c, call.strict)

\* C3 witness: two recorded regex names match the lookup name, which is no
\* exact key, and the item of the first recorded one came back.
C3_Witness ==
    /\ call.op = "_ensure_item"
    /\ ensure_category(call.category) \in DOMAIN categories
    /\ call.name \notin DOMAIN categories[ensure_category(call.category)]
    /\ LET c == ensure_category(call.category)
           M == RegexNames(c, call.name)
       IN  /\ \E i, j \in M : orders[c][i] # orders[c][j]
           /\ call.ret = categories[c][orders[c][Least(M)]]
           /\ call.ret # categories[c][orders[c][CHOOSE i \in M : \A j \in M : j <= i]]

\* an item with substitutions and neither include nor exclude patterns
RewriteOnly(item) ==
    item.subst # << >> /\ item.include = << >> /\ item.exclude = << >>

\* the rewrite-only items of the store, as << category, name >>
RewriteOnlyItems ==
    { cn \in UNION { { << c, n >> : n \in DOMAIN categories[c] } : c \in DOMAIN categories } :
        RewriteOnly(categories[cn[1]][cn[2]]) }

RECURSIVE SeqWithout(_, _)
SeqWithout(q, x) ==
    IF q = << >> THEN << >>
    ELSE (IF Head(q) = x THEN << >> ELSE << Head(q) >>) \o SeqWithout(Tail(q), x)

\* the store without the item under (c, n)
CategoriesWithout(c, n) ==
    [categories EXCEPT ![c] = [k \in (DOMAIN categories[c]) \ {n} |-> categories[c][k]]]

OrdersWithout(c, n) == [orders EXCEPT ![c] = SeqWithout(@, n)]

\* the store with the item under (c, n) stripped of all its rules
CategoriesBlank(c, n) ==
    [categories EXCEPT ![c][n] = PatternItem_new(categories[c][n].category, n)]

\* every category of the list is absent or holds rewrite-only items alone
OnlyRewriteOnly(cats) ==
    \A k \in 1..Len(cats) :
        LET c == ensure_category(cats[k])
        IN  c \in DOMAIN categories =>
                \A n \in DOMAIN categories[c] : RewriteOnly(categories[c][n])

\* C6 as stated: match returns what it returns on the store with any one
\* rewrite-only item removed, and true when the categories hold rewrite-only
\* items alone.
C6_RewriteOnlyRemoved_AsStated ==
    call.op = "match" =>
        /\ \A cn \in RewriteOnlyItems :
              call.ret = Pattern_match(CategoriesWithout(cn[1], cn[2]),
                                       OrdersWithout(cn[1], cn[2]),
                                       call.cats, call.value, call.name)
        /\ OnlyRewriteOnly(Split(call.cats, ",")) => call.ret = TRUE

\* C6 amended: a rewrite-only item never takes part in a match decision: match
\* returns what it returns when the item holds no rules at all (the item still
\* occupies its name, so it can hide a later regex name or the default item of
\* its category), and match against categories that hold rewrite-only items
\* alone returns true.
C6_RewriteOnlySkipped ==
    call.op = "match" =>
        /\ \A cn \in RewriteOnlyItems :
              call.ret = Pattern_match(CategoriesBlank(cn[1], cn[2]), orders,
                                       call.cats, call.value, call.name)
        /\ OnlyRewriteOnly(Split(call.cats, ",")) => call.ret = TRUE

\* C6 witness: match resolved a rewrite-only item for one of its categories
\* and still returned false, on the word of another category.
C6_Witness ==
    /\ call.op = "match"
    /\ call.ret = FALSE
    /\ \E k \in 1..Len(Split(call.cats, ",")) :
          LET item == Pattern_ensure_item(categories, orders, Split(call.cats, ",")[k],
                                          call.name, FALSE)
          IN  item # NoItem /\ RewriteOnly(item)

\* no category of the list resolves, for the lookup name, to an item match uses
NothingToMatch(cats, lookup) ==
    \A k \in 1..Len(cats) :
        LET item == Pattern_ensure_item(categories, orders, cats[k], lookup, FALSE)
        IN  item = NoItem \/ PatternItem_len(item) = 0 \/ RewriteOnly(item)

\* no category of the list has, for the lookup name, an item with substitutions
NothingToReplace(cats, name) ==
    \A k \in 1..Len(cats) :
        LET c == ensure_category(cats[k])
            item == Pattern_ensure_item(categories, orders, c, name, FALSE)
        IN  /\ c \in DOMAIN categories =>
                  \A i \in 1..Len(orders[c]) :
                      (orders[c][i] # None /\ Truthy(name) /\ RegexSearch(orders[c][i], name))
                          => ~replacable(categories[c][orders[c][i]])
            /\ item = NoItem \/ PatternItem_len(item) = 0 \/ ~replacable(item)

\* C7: a lookup miss is no error: when no category of the list resolves to an
\* item that can be used (for match also on the retry with the value as the
\* name, which happens when no name was given), match returns true and replace
\* returns its value argument unchanged, without raising.
C7_MissIsPermissive ==
    /\ call.op = "match" =>
          ((/\ NothingToMatch(Split(call.cats, ","), call.name)
            /\ call.name = None => NothingToMatch(Split(call.cats, ","), call.value))
              => call.ret = TRUE)
    /\ call.op = "replace" =>
          (NothingToReplace(Split(call.cats, ","), call.name)
              => (~call.raised /\ call.ret = call.value))

\* C7 witness: a store with rules, a match on a category that was never added,
\* and the answer true.
C7_Witness ==
    /\ call.op = "match"
    /\ categories # EmptyDict
    /\ \A k \in 1..Len(Split(call.cats, ",")) :
          ensure_category(Split(call.cats, ",")[k]) \notin DOMAIN categories
    /\ call.ret = TRUE

\* the only rule of category c is the exclude pattern bar
OnlyExcludeBar(c) ==
    /\ c \in DOMAIN categories
    /\ DOMAIN categories[c] = { None }
    /\ categories[c][None].include = << >>
    /\ categories[c][None].exclude = << S_bar >>
    /\ categories[c][None].subst = << >>

\* C8: with a category whose only rule is the exclude pattern !bar, match on
\* that category returns false for the value "bar" and true for "baz".
C8_ExcludeOnly ==
    (call.op = "match" /\ OnlyExcludeBar(ensure_category(call.cats))) =>
        /\ call.value = S_bar => call.ret = FALSE
        /\ call.value = S_baz => call.ret = TRUE

\* C8 witness: such a category, built by add("a:!bar"), the value "bar" and
\* the answer false.
C8_Witness ==
    /\ call.op = "match"
    /\ OnlyExcludeBar(ensure_category(call.cats))
    /\ hist = << [op |-> "add", arg |-> << AddExcludeBar >>, exclude |-> FALSE] >>
    /\ call.value = S_bar
    /\ call.ret = FALSE

\* C10 as stated: after loading, into an empty store, the file whose only
\* group is an exclude-patterns group with the two leaf patterns x and y, the
\* store holds an item with both patterns in its exclude list and none in its
\* include list.
C10_ExcludeGroup_AsStated ==
    hist = << [op |-> "load", arg |-> "FileExcludeGroup", exclude |-> FALSE] >> =>
        \E c \in DOMAIN categories : \E n \in DOMAIN categories[c] :
            /\ categories[c][n].include = << >>
            /\ \E i, j \in 1..Len(categories[c][n].exclude) :
                  categories[c][n].exclude[i] = S_x /\ categories[c][n].exclude[j] = S_y

\* the inline strings of the round trip: category ":" [name "@"] value
StrCategories == { <<"c">>, <<"c","-","r","p">>, <<"c","-","r","p","-","r","p">> }

StrNames == { << >>, <<"n","@">>, <<"a","~","b","@">> }

StrValues ==
    { <<"x">>, <<"!","x">>, <<"x",",","y">>, <<"x",",","!","y">>, <<" ","x">>,
      <<"~","x","~","y","~">>, <<"=","x","=","y","=">>, <<"~","~","x","~">>,
      <<"~","x","~","~">>, <<"x",",","~","y","~","z","~">>,
      <<"~","x","~","y","~",",","=","y","=","z","=">> }

StrInputs ==
    { c \o << CATEGORY_DELIMITER >> \o n \o v :
        c \in StrCategories, n \in StrNames, v \in StrValues }

\* one string is parsed, the item is rendered, the rendering is parsed again
NextStr ==
    \/ \E pattern \in StrInputs : Parse(pattern)
    \/ \E c \in DOMAIN categories : \E n \in DOMAIN categories[c] : Str(c, n)
    \/ Reparse
    \/ Return

SpecStr == Init /\ [][NextStr]_vars

(***************************************************************************)
(* SpecBuild: stores built by every form of add and by load, from well-    *)
(* formed and malformed input                                              *)
(***************************************************************************)
BuildCalls ==
    [adds |-> { << << AddExact >>, FALSE >>, << << AddRegexName >>, FALSE >>,
                << << AddFo >>, FALSE >>, << << AddFourDelimiters >>, FALSE >>,
                << << AddTwoDelimiters >>, FALSE >>, << << AddTwoDelimiters >>, TRUE >>,
                << << AddOneDelimiter >>, FALSE >>, << << AddOnlyComma >>, FALSE >>,
                << << AddNoValue >>, FALSE >>,
                << << AddNoCategory >>, FALSE >>, << << AddEmptyCategory >>, FALSE >>,
                << << AddNoCategory, AddExact >>, FALSE >>,
                << << AddSuffix >>, FALSE >>, << << AddReplaceSuffix >>, FALSE >>,
                << << AddTwoSuffixes >>, FALSE >> },
     files |-> { FileExcludeGroup, FileSuffixCategory, FileRegexFirst, FileMalformed,
                 FileUnreadable, FileNoRoot },
     lookups |-> { S_a, S_a_rp, S_a_replace } \X { S_f, S_fo } \X BOOLEAN,
     matches |-> { S_a, S_a_rp, S_a_replace } \X { S_x, S_y } \X { S_f },
     replaces |-> { S_a, S_a_rp } \X { S_x } \X { S_f }]

\* arguments of add other than a list of strings
BuildObjects ==
    { [type |-> "str", value |-> AddExact], [type |-> "str", value |-> AddNoCategory],
      [type |-> "tuple", value |-> << AddEmptyCategory, AddFo >>],
      [type |-> "None", value |-> << >>], [type |-> "int", value |-> << >>] }

NextBuild ==
    \/ NextOn(BuildCalls)
    \/ \E o \in BuildObjects : \E exclude \in BOOLEAN : AddObject(o, exclude)

SpecBuild == Init /\ [][NextBuild]_vars

(***************************************************************************)
(* SpecThreads: worker threads query one store after it was built.  call   *)
(* holds one frame per thread: the position pc of the thread in            *)
(* Pattern.replace and its local variables.  A step of a thread is one     *)
(* access to the store; self.cont of an item is the only field a query     *)
(* writes.  Pattern.match writes nothing and is taken as one step.         *)
(***************************************************************************)
\* how many worker threads query the store
NumThreads == 2

Threads == 1..NumThreads

IdleFrame ==
    [pc |-> "idle", op |-> "none", cats |-> << >>, arg |-> << >>, name |-> None,
     value |-> << >>, ovalue |-> << >>, replaced |-> FALSE, ci |-> 0, oi |-> 0,
     k |-> 0, bucket |-> << >>, key |-> None, via |-> "none", ret |-> << >>,
     accept |-> FALSE]

\* the stores the threads find: each built by one add of a list of strings
BuiltStores ==
    { << AddNamedMixed, AddNamedChainB >>, << AddNamedStop, AddNamedChainB >>,
      << AddDefaultChain, AddDefaultChainB >>, << AddExact, AddExcludeBar >> }

InitThreads ==
    \E built \in BuiltStores :
        /\ categories =
              AddStrings([categories |-> EmptyDict, orders |-> EmptyDict], built, FALSE).categories
        /\ orders =
              AddStrings([categories |-> EmptyDict, orders |-> EmptyDict], built, FALSE).orders
        /\ hist = << [op |-> "add", arg |-> built, exclude |-> FALSE] >>
        /\ call = [t \in Threads |-> IdleFrame]
        /\ NoDispatch

\* the category of the current round of the loop at line 407, canonicalised
\* (line 408)
FrameCategory(f) == ensure_category(Split(f.cats, ",")[f.ci])

\* a thread calls Pattern.replace(categories, value, name): lines 404-405
ThreadReplace(t, cats, value, name) ==
    /\ call[t].pc = "idle"
    /\ call' = [call EXCEPT ![t] =
                  [IdleFrame EXCEPT !.pc = "category", !.op = "replace", !.cats = cats,
                                    !.arg = value, !.name = name, !.value = value,
                                    !.ci = 1]]
    /\ UNCHANGED << categories, orders, hist, pool >>

\* lines 407-410 and 430: the next category, or `return value` after the last
ReplaceCategory(t) ==
    LET f == call[t]
    IN  /\ f.pc = "category"
        /\ call' = [call EXCEPT ![t] =
                      IF f.ci > Len(Split(f.cats, ","))
                      THEN [f EXCEPT !.pc = "done", !.ret = f.value]
                      ELSE IF FrameCategory(f) \in DOMAIN categories
                      THEN [f EXCEPT !.pc = "order", !.oi = 1]
                      ELSE [f EXCEPT !.pc = "fallback"]]
        /\ UNCHANGED << categories, orders, hist, pool >>

\* lines 411-418: the next recorded name; an item with substitutions whose
\* name matches is entered with item.replace(value)
ReplacePattern(t) ==
    LET f == call[t]
        c == FrameCategory(f)
    IN  /\ f.pc = "order"
        /\ call' = [call EXCEPT ![t] =
                      IF f.oi > Len(orders[c]) THEN [f EXCEPT !.pc = "fallback"]
                      ELSE IF /\ orders[c][f.oi] # None
                              /\ Truthy(f.name)
                              /\ RegexSearch(orders[c][f.oi], f.name)
                              /\ replacable(categories[c][orders[c][f.oi]])
                      THEN [f EXCEPT !.pc = "sub", !.bucket = c, !.key = orders[c][f.oi],
                                     !.via = "named", !.ovalue = f.value, !.k = 1]
                      ELSE [f EXCEPT !.oi = @ + 1]]
        /\ UNCHANGED << categories, orders, hist, pool >>

\* lines 155-157: one round of the loop of PatternItem.replace, which
\* rewrites the thread's value and writes self.cont
ItemReplaceStep(t) ==
    LET f == call[t]
        item == categories[f.bucket][f.key]
    IN  /\ f.pc = "sub"
        /\ f.k <= Len(item.subst)
        /\ call' = [call EXCEPT ![t] =
                      [f EXCEPT !.value = RegexSub(item.subst[f.k].pattern,
                                                   item.subst[f.k].subst, f.value),
                                !.k = @ + 1]]
        /\ categories' = [categories EXCEPT ![f.bucket][f.key].cont = item.subst[f.k].cont]
        /\ UNCHANGED << orders, hist, pool >>

\* line 159: PatternItem.replace returns; line 428 returns its value at once
ItemReplaceReturn(t) ==
    LET f == call[t]
    IN  /\ f.pc = "sub"
        /\ f.k > Len(categories[f.bucket][f.key].subst)
        /\ call' = [call EXCEPT ![t] =
                      IF f.via = "named" THEN [f EXCEPT !.pc = "check"]
                      ELSE [f EXCEPT !.pc = "done", !.ret = f.value]]
        /\ UNCHANGED << categories, orders, hist, pool >>

\* lines 419-422: replaced is updated and item.continuable() reads self.cont
ReplaceCheck(t) ==
    LET f == call[t]
        replaced == f.replaced \/ f.value # f.ovalue
    IN  /\ f.pc = "check"
        /\ call' = [call EXCEPT ![t] =
                      IF replaced /\ ~continuable(categories[f.bucket][f.key])
                      THEN [f EXCEPT !.pc = "done", !.replaced = replaced, !.ret = f.value]
                      ELSE [f EXCEPT !.pc = "order", !.replaced = replaced, !.oi = @ + 1]]
        /\ UNCHANGED << categories, orders, hist, pool >>

\* lines 425-428: ordinary resolution when nothing was replaced so far
ReplaceFallback(t) ==
    LET f == call[t]
        c == FrameCategory(f)
        item == Pattern_ensure_item(categories, orders, c, f.name, FALSE)
    IN  /\ f.pc = "fallback"
        /\ call' = [call EXCEPT ![t] =
                      IF ~f.replaced /\ ItemTruthy(item) /\ replacable(item)
                      THEN [f EXCEPT !.pc = "sub", !.bucket = ensure_category(c),
                                     !.key = EnsureKey(categories, orders, c, f.name, FALSE),
                                     !.via = "resolved", !.k = 1]
                      ELSE [f EXCEPT !.pc = "category", !.ci = @ + 1]]
        /\ UNCHANGED << categories, orders, hist, pool >>

\* a thread calls Pattern.match(categories, value, name)
ThreadMatch(t, cats, value, name) ==
    /\ call[t].pc = "idle"
    /\ call' = [call EXCEPT ![t] =
                  [IdleFrame EXCEPT !.pc = "done", !.op = "match", !.cats = cats,
                                    !.arg = value, !.name = name,
                                    !.accept = Pattern_match(categories, orders, cats,
                                                             value, name)]]
    /\ UNCHANGED << categories, orders, hist, pool >>

\* the thread takes the result and is ready for its next call
ThreadReturn(t) ==
    /\ call[t].pc = "done"
    /\ call' = [call EXCEPT ![t] = IdleFrame]
    /\ UNCHANGED << categories, orders, hist, pool >>

ThreadReplaces == { << S_a_b, S_x, S_f >>, << S_a, S_x, None >> }

ThreadMatches == { << S_a, S_x, S_f >>, << S_a, S_bar, None >> }

NextThreads ==
    \E t \in Threads :
        \/ \E m \in ThreadReplaces : ThreadReplace(t, m[1], m[2], m[3])
        \/ \E m \in ThreadMatches : ThreadMatch(t, m[1], m[2], m[3])
        \/ ReplaceCategory(t)
        \/ ReplacePattern(t)
        \/ ItemReplaceStep(t)
        \/ ItemReplaceReturn(t)
        \/ ReplaceCheck(t)
        \/ ReplaceFallback(t)
        \/ ThreadReturn(t)

SpecThreads == InitThreads /\ [][NextThreads]_vars

(***************************************************************************)
(* Claims about replace (checked under SpecReplace)                        *)
(***************************************************************************)
\* the store was built by add("project:libfoo@.*") and then
\* add("project:~libfoo~lib-foo~"), and replace("project", "libfoo",
\* name="libfoo") was called on it
LibfooScenario ==
    /\ hist = << [op |-> "add", arg |-> << AddLibfoo >>, exclude |-> FALSE],
                 [op |-> "add", arg |-> << AddLibfooRewrite >>, exclude |-> FALSE] >>
    /\ call.op = "replace"
    /\ call.cats = S_project
    /\ call.value = S_libfoo
    /\ call.name = S_libfoo

\* C1 as stated: in the scenario, replace returns "lib-foo".
C1_Libfoo_AsStated == LibfooScenario => call.ret = S_lib_foo

\* C1 amended: in the scenario, replace returns "libfoo" unchanged and applies
\* no substitution: the item under the exact name "libfoo" holds only the
\* include pattern, and the default item that holds the substitution is not
\* consulted for a name that has an item of its own.
C1_Libfoo ==
    LibfooScenario => (~call.raised /\ call.ret = S_libfoo /\ call.log = << >>)

\* C1 witness: the scenario, with both items in the store
C1_Witness ==
    /\ LibfooScenario
    /\ DOMAIN categories[S_project] = { S_libfoo, None }
    /\ categories[S_project][None].subst =
          << PatternReplaceItem(S_libfoo, S_lib_foo, FALSE) >>
    /\ call.ret = S_libfoo

\* the value the item of log entry i was applied to
ItemInput(i) == call.log[i - call.log[i].k + 1].inp

\* an entry of the log of the first category whose substitution rewrote the value
Rewrote(i, cont) ==
    /\ call.log[i].ci = 1
    /\ call.log[i].cont = cont
    /\ call.log[i].inp # call.log[i].out

\* C4 as stated: in replace("A,B", ...), if a non-chained substitution of
\* category A rewrites the value, replace returns A's result and applies no
\* substitution of a later category.
C4_StopAfterA_AsStated ==
    (call.op = "replace" /\ ~call.raised /\ Len(Split(call.cats, ",")) >= 2) =>
        ((\E i \in 1..Len(call.log) : Rewrote(i, FALSE)) =>
            /\ \A j \in 1..Len(call.log) : call.log[j].ci = 1
            /\ call.ret = call.log[Len(call.log)].out)

\* C4 amended: in replace("A,B", ...), if an item of category A rewrites the
\* value and the last substitution of that item is non-chained, replace
\* returns that item's output: no later item and no later category is applied.
C4_StopAfterA ==
    (call.op = "replace" /\ ~call.raised /\ Len(Split(call.cats, ",")) >= 2) =>
        \A i \in 1..Len(call.log) :
            (/\ call.log[i].ci = 1
             /\ (i = Len(call.log) \/ call.log[i + 1].k = 1)
             /\ ~call.log[i].cont
             /\ ItemInput(i) # call.log[i].out)
                => (i = Len(call.log) /\ call.ret = call.log[i].out)

\* the second category of the call holds, under a name that applies to the
\* lookup name or under its default, a substitution whose pattern matches v
SecondHasMatching(v) ==
    LET c == ensure_category(Split(call.cats, ",")[2])
    IN  /\ c \in DOMAIN categories
        /\ \E n \in DOMAIN categories[c] :
              /\ n = None \/ (Truthy(call.name) /\ RegexSearch(n, call.name))
              /\ \E j \in 1..Len(categories[c][n].subst) :
                    RegexSearch(categories[c][n].subst[j].pattern, v)

\* C4 witness: a non-chained item of A rewrote the value, replace returned its
\* output, and B holds a substitution that matches that output.
C4_Witness ==
    /\ call.op = "replace"
    /\ Len(Split(call.cats, ",")) = 2
    /\ ensure_category(Split(call.cats, ",")[1]) # ensure_category(Split(call.cats, ",")[2])
    /\ Len(call.log) = 1
    /\ Rewrote(1, FALSE)
    /\ call.log[1].via = "named"
    /\ call.ret = call.log[1].out
    /\ SecondHasMatching(call.ret)

\* the output of the last substitution of the first category
FirstOutput ==
    call.log[CHOOSE i \in 1..Len(call.log) :
                /\ call.log[i].ci = 1
                /\ \A j \in 1..Len(call.log) : call.log[j].ci = 1 => j <= i].out

\* C5 as stated: in replace("A,B", ...), if a chained substitution of category
\* A rewrites the value, B's matching substitution is applied to A's output,
\* whether the rules are stored under a name or under the category default.
C5_ChainToB_AsStated ==
    (call.op = "replace" /\ ~call.raised /\ Len(Split(call.cats, ",")) = 2) =>
        (((\E i \in 1..Len(call.log) : Rewrote(i, TRUE)) /\ SecondHasMatching(FirstOutput))
            => \E j \in 1..Len(call.log) :
                  call.log[j].ci = 2 /\ call.log[j].inp = FirstOutput)

\* the second category of the call holds an item with substitutions under a
\* name that matches the lookup name
SecondHasNamed ==
    LET c == ensure_category(Split(call.cats, ",")[2])
    IN  /\ c \in DOMAIN categories
        /\ \E i \in 1..Len(orders[c]) :
              /\ orders[c][i] # None
              /\ Truthy(call.name)
              /\ RegexSearch(orders[c][i], call.name)
              /\ categories[c][orders[c][i]].subst # << >>

\* C5 amended: in replace("A,B", ...), if the items of category A stored under
\* names that match the lookup name rewrite the value with chained
\* substitutions only, then B's first item with substitutions stored under a
\* name that matches the lookup name is applied to A's output.  A rule stored
\* under a category default does not chain: the item that ordinary resolution
\* finds is applied only when nothing was rewritten before, and its result is
\* returned at once.
C5_ChainToB ==
    (call.op = "replace" /\ ~call.raised /\ Len(Split(call.cats, ",")) = 2) =>
        /\ ((/\ \E i \in 1..Len(call.log) : call.log[i].ci = 1
             /\ \A i \in 1..Len(call.log) :
                   call.log[i].ci = 1 => (call.log[i].cont /\ call.log[i].via = "named")
             /\ FirstOutput # call.value
             /\ SecondHasNamed)
               => \E j \in 1..Len(call.log) :
                     /\ call.log[j].ci = 2
                     /\ call.log[j].via = "named"
                     /\ call.log[j].k = 1
                     /\ call.log[j].inp = FirstOutput
                     /\ \A m \in 1..(j - 1) : call.log[m].ci = 1)
        /\ \A i \in 1..Len(call.log) :
              call.log[i].via = "resolved" =>
                  /\ \A j \in 1..Len(call.log) :
                        (call.log[j].ci = call.log[i].ci /\ call.log[j].key = call.log[i].key)
                        \/ (j < i /\ call.log[j].via = "named" /\ ItemInput(j) = call.log[j].out
                            /\ call.log[j].inp = call.log[j].out)
                  /\ call.ret = call.log[Len(call.log)].out

\* C5 witness: a chained item of A stored under a name rewrote the value and an
\* item of B stored under a name rewrote A's output.
C5_Witness ==
    /\ call.op = "replace"
    /\ Len(Split(call.cats, ",")) = 2
    /\ \E i, j \in 1..Len(call.log) :
          /\ Rewrote(i, TRUE)
          /\ call.log[i].via = "named"
          /\ call.log[j].ci = 2
          /\ call.log[j].inp = FirstOutput
          /\ call.log[j].out # call.log[j].inp
          /\ call.ret = call.log[j].out

(***************************************************************************)
(* Claims about rendering (checked under SpecStr)                          *)
(***************************************************************************)
\* the items a and b agree on category, name, include list, exclude list and
\* substitution triples
SameRule(a, b) ==
    /\ a.category = b.category
    /\ a.name = b.name
    /\ a.include = b.include
    /\ a.exclude = b.exclude
    /\ a.subst = b.subst

\* C9 as stated: for every inline string the parser accepts, parsing it,
\* rendering the item with __str__ and parsing the rendering again gives an
\* item with the same category, name, include list, exclude list and
\* substitution triples.
C9_RoundTrip_AsStated ==
    call.op = "reparse" =>
        \E c \in DOMAIN call.ret.categories :
            \E n \in DOMAIN call.ret.categories[c] :
                SameRule(call.ret.categories[c][n], call.item)

(***************************************************************************)
(* Claims about the store after add and load (checked under SpecBuild)     *)
(***************************************************************************)
\* the names recorded in the order list of category c
OrderNames(c) == { orders[c][i] : i \in 1..Len(orders[c]) }

\* C11: after any sequence of add and load calls, orders and categories have
\* the same categories, and for every category the set of names in its order
\* list is the set of keys of its name map.
C11_LockStep ==
    /\ DOMAIN orders = DOMAIN categories
    /\ \A c \in DOMAIN categories : OrderNames(c) = DOMAIN categories[c]

\* C11 witness: a store built by a string add and a load, with a category
\* that holds two names
C11_Witness ==
    /\ \E i, j \in 1..Len(hist) : hist[i].op = "add" /\ hist[j].op = "load"
    /\ \E c \in DOMAIN categories :
          \E m, n \in DOMAIN categories[c] : m # n /\ {m, n} \subseteq OrderNames(c)

(***************************************************************************)
(* Claims about building the store (checked under SpecBuild)               *)
(***************************************************************************)
\* the pattern text of the inline string s: what follows "category:" and,
\* when there is one, "name@"
ValueOf(s) ==
    LET rest == SplitOnce(s, CATEGORY_DELIMITER)[2]
    IN  IF Find(rest, ITEM_NAME_DELIMITER) > 0
        THEN SplitOnce(rest, ITEM_NAME_DELIMITER)[2]
        ELSE rest

\* every call so far was add with a list of inline strings, each with a
\* category and a non-empty pattern text
OnlyNonEmptyText ==
    \A i \in 1..Len(hist) :
        /\ hist[i].op = "add"
        /\ "type" \notin DOMAIN hist[i]
        /\ \A k \in 1..Len(hist[i].arg) :
              /\ Find(hist[i].arg[k], CATEGORY_DELIMITER) > 0
              /\ ValueOf(hist[i].arg[k]) # << >>

\* C12 as stated: every item constructed from a non-empty pattern text has
\* len(item) > 0, so no zero-length item is stored in categories.
C12_NoEmptyItem_AsStated ==
    OnlyNonEmptyText =>
        \A c \in DOMAIN categories : \A n \in DOMAIN categories[c] :
            PatternItem_len(categories[c][n]) > 0

\* how many times the character ch occurs in s
Occurrences(s, ch) == Cardinality({ i \in 1..Len(s) : s[i] = ch })

\* v is one token that begins with "~" or "=" and does not hold exactly three
\* of that delimiter
MalformedSubstitution(v) ==
    /\ v # << >>
    /\ v[1] \in { REPLACEMENT_DELIMITER, CONN_REPLACE_DELIMITER }
    /\ Find(v, PATTERN_DELIMITER) = -1
    /\ Occurrences(v, v[1]) # 3

\* the store was built by one add(exclude=False) of one inline string whose
\* pattern text is a malformed substitution token
OneMalformedAdd ==
    /\ Len(hist) = 1
    /\ hist[1].op = "add"
    /\ "type" \notin DOMAIN hist[1]
    /\ ~hist[1].exclude
    /\ Len(hist[1].arg) = 1
    /\ Find(hist[1].arg[1], CATEGORY_DELIMITER) > 0
    /\ MalformedSubstitution(ValueOf(hist[1].arg[1]))

\* C13 as stated: a token that begins with "~" or "=" without exactly three
\* occurrences of that delimiter is never dropped: as it does not start with
\* "!", it becomes an include pattern of the item.
C13_MalformedKept_AsStated ==
    OneMalformedAdd =>
        \E c \in DOMAIN categories : \E n \in DOMAIN categories[c] :
            categories[c][n].include = << ValueOf(hist[1].arg[1]) >>

\* the category c ends in "-rp", "-replace" or "-replacement"
HasReplaceSuffix(c) == \E k \in 1..Len(REPLACEMENT) : EndsWith(c, REPLACEMENT[k])

\* C14 as stated: after any sequence of add and load, every key of categories
\* is a canonical category (without a replace suffix), and a rule stored for
\* a category is resolved from that category with or without the suffix.
C14_CanonicalKeys_AsStated ==
    \A c \in DOMAIN categories :
        /\ ~HasReplaceSuffix(c)
        /\ \A n \in DOMAIN categories[c] :
              n # None =>
                  \A k \in 1..Len(REPLACEMENT) :
                      Pattern_ensure_item(categories, orders, c \o REPLACEMENT[k], n, TRUE)
                          = Pattern_ensure_item(categories, orders, c, n, TRUE)

\* the inline string s has a category: a ":" that is not its first character
HasCategory(s) == \E i \in 2..Len(s) : s[i] = CATEGORY_DELIMITER

\* the strings that the add call recorded as e hands to the parser: the one
\* string, the elements of the list or tuple, none for any other argument
StringsOf(e) ==
    IF "type" \notin DOMAIN e THEN e.arg
    ELSE IF e.type = "str" THEN << e.arg >>
    ELSE IF e.type \in {"list", "tuple"} THEN e.arg
    ELSE << >>

\* C15: an add call whose argument is of an unsupported type, or whose
\* strings all lack a category, leaves categories and orders as they were;
\* the strings of a list that do have a category are added as if the others
\* were not there.
C15_BadInputIgnored ==
    [][(Len(hist') = Len(hist) + 1 /\ hist'[Len(hist')].op = "add") =>
          LET e == hist'[Len(hist')]
          IN  /\ (\A k \in 1..Len(StringsOf(e)) : ~HasCategory(StringsOf(e)[k]))
                    => (categories' = categories /\ orders' = orders)
              /\ [categories |-> categories', orders |-> orders']
                    = AddStrings(Store, SelectSeq(StringsOf(e), HasCategory), e.exclude)
      ]_vars

\* C15 witness: on a store that holds rules, add was called with a string
\* without a category, with a tuple that mixes such a string with a valid one,
\* or with an unsupported object
C15_Witness ==
    /\ Len(hist) = 2
    /\ hist[1].op = "add"
    /\ DOMAIN categories # {}
    /\ hist[2].op = "add"
    /\ "type" \in DOMAIN hist[2]
    /\ \/ hist[2].type = "int"
       \/ hist[2].type = "tuple" /\ (\E k \in 1..Len(hist[2].arg) : ~HasCategory(hist[2].arg[k]))
                                 /\ (\E k \in 1..Len(hist[2].arg) : HasCategory(hist[2].arg[k]))

\* the last call was load of a definition file that cannot be opened or is
\* not well-formed
FailedLoad ==
    /\ Len(hist) > 0
    /\ hist[Len(hist)].op = "load"
    /\ hist[Len(hist)].arg \in { FileUnreadable.id, FileMalformed.id }

\* C16 as stated: when the definition file cannot be read or parsed, the
\* loader returns an empty mapping and no error reaches the caller of
\* Pattern.load.
C16_LoadFailureQuiet_AsStated ==
    FailedLoad =>
        /\ call.op # "load"
        /\ \A f \in { FileUnreadable, FileMalformed } :
              f.id = hist[Len(hist)].arg =>
                  (~PatternFile_load(f).none /\ PatternFile_load(f).items = << >>)

(***************************************************************************)
(* Claims about match (checked under Spec)                                 *)
(***************************************************************************)
\* some category of the list resolves, for the lookup name, to an item that
\* match can use, and every such item rejects the value
OnlyRejected(cats, lookup, value) ==
    /\ ~NothingToMatch(cats, lookup)
    /\ \A k \in 1..Len(cats) :
          LET item == Pattern_ensure_item(categories, orders, cats[k], lookup, FALSE)
          IN  (item # NoItem /\ PatternItem_len(item) > 0 /\ ~RewriteOnly(item))
                  => ~PatternItem_match(item, value)

\* C17: match uses the value as the lookup name only when the caller gave no
\* name and the pass with the absent name found no usable item in any
\* category: then the items found for the value decide.  When a name is
\* given and no category has a usable item for it, match returns true, also
\* if the items found for the value would reject it.
C17_RetryOnlyWithoutName ==
    call.op = "match" =>
        LET cats == Split(call.cats, ",")
        IN  /\ (call.name # None /\ NothingToMatch(cats, call.name)) => call.ret = TRUE
            /\ (call.name = None /\ NothingToMatch(cats, None)
                    /\ OnlyRejected(cats, call.value, call.value)) => call.ret = FALSE
            /\ (call.name = None /\ ~NothingToMatch(cats, None)) =>
                  call.ret = MatchPass(categories, orders, cats, call.value, None).ret

\* C17 witness: a name was given, no category has a usable item for it, the
\* item found for the value rejects the value, and match returned true
C17_Witness ==
    /\ call.op = "match"
    /\ call.name # None
    /\ NothingToMatch(Split(call.cats, ","), call.name)
    /\ OnlyRejected(Split(call.cats, ","), call.value, call.value)
    /\ call.ret = TRUE

\* C17 second witness: no name was given, the absent name found nothing, and
\* the item found for the value rejected it
C17_WitnessRetry ==
    /\ call.op = "match"
    /\ call.name = None
    /\ NothingToMatch(Split(call.cats, ","), None)
    /\ OnlyRejected(Split(call.cats, ","), call.value, call.value)
    /\ call.ret = FALSE

(***************************************************************************)
(* Claims about what add and load keep (checked under SpecBuild)           *)
(***************************************************************************)
\* the list a is the beginning of the list b
IsPrefix(a, b) == Len(a) <= Len(b) /\ SubSeq(b, 1, Len(a)) = a

\* C19 as stated: across add and load calls an item is never removed or
\* replaced: what an item holds under (category, name) before a call, the
\* item under that key still holds after it, new entries being appended.
C19_NeverReplaced_AsStated ==
    [][\A c \in DOMAIN categories : \A n \in DOMAIN categories[c] :
          /\ c \in DOMAIN categories'
          /\ n \in DOMAIN categories'[c]
          /\ IsPrefix(categories[c][n].include, categories'[c][n].include)
          /\ IsPrefix(categories[c][n].exclude, categories'[c][n].exclude)
          /\ IsPrefix(categories[c][n].subst, categories'[c][n].subst)
      ]_vars

\* the last call was add(exclude=False) of one inline string "c:n@v"
LastAddNamed ==
    /\ Len(hist) > 0
    /\ hist[Len(hist)].op = "add"
    /\ "type" \notin DOMAIN hist[Len(hist)]
    /\ ~hist[Len(hist)].exclude
    /\ Len(hist[Len(hist)].arg) = 1
    /\ HasCategory(hist[Len(hist)].arg[1])
    /\ Find(SplitOnce(hist[Len(hist)].arg[1], CATEGORY_DELIMITER)[2], ITEM_NAME_DELIMITER) > 0

\* the category and the name written in the last inline string
LastCategory == SplitOnce(hist[Len(hist)].arg[1], CATEGORY_DELIMITER)[1]

LastName ==
    SplitOnce(SplitOnce(hist[Len(hist)].arg[1], CATEGORY_DELIMITER)[2],
              ITEM_NAME_DELIMITER)[1]

\* the one-character include patterns that the text v lists
PlainPatterns(v) ==
    { p \in { << v[i] >> : i \in 1..Len(v) } :
        /\ p \in { Split(v, PATTERN_DELIMITER)[k] : k \in 1..Len(Split(v, PATTERN_DELIMITER)) }
        /\ p[1] \notin { OPPOSITE_DELIMITER, REPLACEMENT_DELIMITER, CONN_REPLACE_DELIMITER, " " } }

\* C20 as stated: after add of "c:n@v" on any store, the canonical category of
\* c has an item under exactly the key n, recorded in orders, and that item
\* holds the patterns of v.
C20_ExactKey_AsStated ==
    LastAddNamed =>
        LET c == ensure_category(LastCategory)
        IN  /\ c \in DOMAIN categories
            /\ LastName \in DOMAIN categories[c]
            /\ LastName \in { orders[c][i] : i \in 1..Len(orders[c]) }
            /\ \A p \in PlainPatterns(ValueOf(hist[Len(hist)].arg[1])) :
                  \E k \in 1..Len(categories[c][LastName].include) :
                      categories[c][LastName].include[k] = p

(***************************************************************************)
(* Claims about concurrent queries (checked under SpecThreads)             *)
(***************************************************************************)
\* C18 as stated: once the store is built, in any interleaving of concurrent
\* match and replace calls each call returns what it returns when it runs
\* alone on that store.
C18_SameAsSequential_AsStated ==
    \A t \in Threads :
        call[t].pc = "done" =>
            /\ call[t].op = "replace" =>
                  call[t].ret = Pattern_replace(categories, orders, call[t].cats,
                                                call[t].arg, call[t].name).value
            /\ call[t].op = "match" =>
                  call[t].accept = Pattern_match(categories, orders, call[t].cats,
                                                 call[t].arg, call[t].name)

(***************************************************************************)
(* Calls on one item of the store: PatternItem.match and                   *)
(* PatternItem.replace of the item kept in category c under the key n.     *)
(* PatternItem.replace writes self.cont of that item.                      *)
(***************************************************************************)
\* item.match(patterns)
ItemMatch(c, n, patterns) ==
    /\ call = Idle
    /\ c \in DOMAIN categories
    /\ n \in DOMAIN categories[c]
    /\ call' = [op |-> "item.match", item |-> categories[c][n], patterns |-> patterns,
                ret |-> PatternItem_match(categories[c][n], patterns)]
    /\ UNCHANGED << categories, orders, hist, pool >>

\* item.replace(value)
ItemReplace(c, n, value) ==
    /\ call = Idle
    /\ c \in DOMAIN categories
    /\ n \in DOMAIN categories[c]
    /\ LET r == PatternItem_replace(categories[c][n], value)
       IN  /\ call' = [op |-> "item.replace", item |-> categories[c][n],
                       value |-> value, raised |-> r.raised, ret |-> r.value,
                       steps |-> r.steps, category |-> c, key |-> n]
           /\ categories' = [categories EXCEPT ![c][n].cont = r.cont]
    /\ UNCHANGED << orders, hist, pool >>

\* "a:f@ba.*,!bar"
AddBoth == <<"a",":","f","@","b","a",".","*",",","!","b","a","r">>
\* "a:f@x,!bar"
AddIncludeExclude == <<"a",":","f","@","x",",","!","b","a","r">>
\* "a:~~y~"
AddNameless == <<"a",":","~","~","y","~">>
\* "a:f@~x~y~,=y=z="
AddTwoStep == <<"a",":","f","@","~","x","~","y","~",",","=","y","=","z","=">>
\* "a:f@=x=y=,~y~z~"
AddTwoStepStop == <<"a",":","f","@","=","x","=","y","=",",","~","y","~","z","~">>
\* "a:f@=q=x="
AddChainQ == <<"a",":","f","@","=","q","=","x","=">>
\* "!bar"
S_not_bar == <<"!","b","a","r">>
\* "!x"
S_not_x == <<"!","x">>
\* "!baz"
S_not_baz == <<"!","b","a","z">>
\* "x,bar"
S_x_bar == <<"x",",","b","a","r">>
\* "bar,x"
S_bar_x == <<"b","a","r",",","x">>
\* "!x,bar"
S_not_x_bar == <<"!","x",",","b","a","r">>
\* "baz,bar"
S_baz_bar == <<"b","a","z",",","b","a","r">>
\* "q"
S_q == <<"q">>

ItemAdds ==
    { << AddBoth >>, << AddIncludeExclude >>, << AddExact >>, << AddExcludeBar >>, << AddRegexAll >>,
      << AddNoValue >>, << AddTwoStep >>, << AddTwoStepStop >>, << AddChainQ >>,
      << AddNamedStop >>, << AddNameless >> }

ItemCandidates ==
    { S_bar, S_not_bar, S_baz, S_not_baz, S_x, S_not_x, S_empty,
      S_x_bar, S_bar_x, S_not_x_bar, S_baz_bar }

ItemValues == { S_x, S_q, S_y, S_bar }

NextItem ==
    \/ \E a \in ItemAdds : Add(a, FALSE)
    \/ \E c \in {S_a}, n \in {S_f, None, << ".", "*" >>}, p \in ItemCandidates :
          ItemMatch(c, n, p)
    \/ \E c \in {S_a}, n \in {S_f, None, << ".", "*" >>}, v \in ItemValues :
          ItemReplace(c, n, v)
    \/ Return

SpecItem == Init /\ [][NextItem]_vars

(***************************************************************************)
(* C21  PatternItem.match on one candidate                                 *)
(***************************************************************************)
\* the item.match call in progress was made with one candidate (no comma)
OneCandidate ==
    /\ call.op = "item.match"
    /\ Find(call.patterns, PATTERN_DELIMITER) = -1

\* the candidate of that call carries the "!" marker
Marked == StartsWith(call.patterns, OPPOSITE_DELIMITER)

\* the candidate without its marker
Bare == IF Marked THEN Tail(call.patterns) ELSE call.patterns

HitsInclude == \E i \in 1..Len(call.item.include) : RegexSearch(call.item.include[i], Bare)

HitsExclude == \E e \in 1..Len(call.item.exclude) : RegexSearch(call.item.exclude[e], Bare)

\* C21: item.match on a single candidate returns, in this order: "not
\* marked" when an include pattern matches; else "marked" when an exclude
\* pattern matches; else "marked" when the item has include patterns; else
\* "not marked" when it has exclude patterns; and true for an item with
\* neither.
C21_MatchOrder ==
    OneCandidate =>
        /\ HitsInclude => call.ret = ~Marked
        /\ ~HitsInclude /\ HitsExclude => call.ret = Marked
        /\ ~HitsInclude /\ ~HitsExclude /\ call.item.include # << >> => call.ret = Marked
        /\ ~HitsInclude /\ ~HitsExclude /\ call.item.include = << >>
              /\ call.item.exclude # << >> => call.ret = ~Marked
        /\ call.item.include = << >> /\ call.item.exclude = << >> => call.ret = TRUE

\* a marked candidate that an include and an exclude pattern both match was
\* refused, on an item that has both
C21_Witness ==
    /\ OneCandidate
    /\ Marked
    /\ HitsInclude
    /\ HitsExclude
    /\ call.ret = FALSE

(***************************************************************************)
(* C22  a value that an exclude pattern matches                            *)
(***************************************************************************)
\* As stated: a value without marker that matches an exclude pattern of the
\* item is rejected by item.match, also when an include pattern matches it.
C22_ExcludeRejects_AsStated ==
    OneCandidate /\ ~Marked /\ HitsExclude => call.ret = FALSE

\* C22: a value without marker that matches an exclude pattern of the item
\* and none of its include patterns is rejected by item.match; a value that
\* an include pattern matches is accepted, whatever the exclude patterns.
C22_ExcludeRejects ==
    OneCandidate /\ ~Marked =>
        /\ HitsExclude /\ ~HitsInclude => call.ret = FALSE
        /\ HitsInclude => call.ret = TRUE

\* a value that only an exclude pattern matches was rejected by an item that
\* has include patterns too
C22_Witness ==
    /\ OneCandidate
    /\ ~Marked
    /\ HitsExclude
    /\ ~HitsInclude
    /\ call.item.include # << >>
    /\ call.ret = FALSE

(***************************************************************************)
(* C23  PatternItem.replace                                                *)
(***************************************************************************)
\* the value after the substitutions k.. of subst, each applied to the
\* output of the one before
RECURSIVE InDeclaredOrder(_, _, _)
InDeclaredOrder(subst, k, value) ==
    IF k > Len(subst) THEN value
    ELSE InDeclaredOrder(subst, k + 1, RegexSub(subst[k].pattern, subst[k].subst, value))

\* the item.replace call in progress has returned
ItemReplaced == call.op = "item.replace" /\ ~call.raised

StoreReplaced == call.op = "replace" /\ ~call.raised

\* the item that ordinary resolution finds for the ci-th category of the call
ResolvedItem(ci) ==
    Pattern_ensure_item(categories, orders,
                        ensure_category(Split(call.cats, ",")[ci]), call.name, FALSE)

\* that item exists and has substitutions
Resolvable(ci) == ItemTruthy(ResolvedItem(ci)) /\ ResolvedItem(ci).subst # << >>

\* no substitution of an item entered by name changed the value in the
\* categories up to the ci-th
NoNamedChange(ci) ==
    \A e \in 1..Len(call.log) :
        call.log[e].via = "named" /\ call.log[e].ci <= ci => call.log[e].out = call.log[e].inp

\* the ci-th category is the first whose resolved item has substitutions
FirstResolvable(ci) ==
    /\ ci \in 1..Len(Split(call.cats, ","))
    /\ Resolvable(ci)
    /\ \A cj \in 1..(ci - 1) : ~Resolvable(cj)

\* C24: in Pattern.replace, when no substitution entered by name has changed
\* the value so far, the item that ordinary resolution finds for the current
\* category is applied if it has substitutions, and its result is returned at
\* once: no later category is consulted, whatever the chain flag.
C24_ResolvedReturns ==
    StoreReplaced =>
        \A ci \in 1..Len(Split(call.cats, ",")) :
            FirstResolvable(ci) /\ NoNamedChange(ci) =>
                /\ call.ret = InDeclaredOrder(ResolvedItem(ci).subst, 1, call.value)
                /\ \E e \in 1..Len(call.log) :
                      call.log[e].via = "resolved" /\ call.log[e].ci = ci
                /\ \A e \in 1..Len(call.log) : call.log[e].ci <= ci

\* the default item of the first category rewrote the value and left its
\* chain flag set; the second category has an item that would have
\* rewritten the result, and was not consulted
C24_Witness ==
    /\ StoreReplaced
    /\ Len(Split(call.cats, ",")) = 2
    /\ FirstResolvable(1)
    /\ NoNamedChange(1)
    /\ Resolvable(2)
    /\ ResolvedItem(1).cont
    /\ call.ret # call.value
    /\ InDeclaredOrder(ResolvedItem(2).subst, 1, call.ret) # call.ret

(***************************************************************************)
(* Definition files read group by group: PatternFile.parse_patterns(node)  *)
(* called on its own, and Pattern.load of a file holding the group.        *)
(***************************************************************************)
\* PatternFile.parse_patterns(node)
ParsePatterns(node) ==
    /\ call = Idle
    /\ call' = [op |-> "parse_patterns", node |-> node, ret |-> parse_patterns(node)]
    /\ UNCHANGED << categories, orders, hist, pool >>

\* "=x=y="
S_chain_x_y == <<"=","x","=","y","=">>
\* "~x~y~"
S_stop_x_y == <<"~","x","~","y","~">>
\* "x,!y"
S_x_not_y == <<"x",",","!","y">>
\* "true"
S_true == <<"t","r","u","e">>

\* <patterns category="a" name="f">
\*   <pattern value="=x=y="/> <pattern value="~x~y~"/>
\* </patterns>
GroupSubstLeaves ==
    [nodeName |-> "patterns",
     attrs |-> Attrs(S_f, S_a, << >>, << >>, << >>),
     childNodes |-> << TextNode, Leaf("pattern", S_chain_x_y), TextNode,
                       Leaf("pattern", S_stop_x_y), TextNode >>]

\* <patterns category="a" name="f" continue="true">
\*   <pattern value="~x~y~"/>
\* </patterns>
GroupContinue ==
    [nodeName |-> "patterns",
     attrs |-> Attrs(S_f, S_a, << >>, << >>, S_true),
     childNodes |-> << TextNode, Leaf("pattern", S_stop_x_y), TextNode >>]

\* <patterns category="a"> <pattern value="x,!y"/> </patterns>
GroupPlain ==
    [nodeName |-> "patterns",
     attrs |-> Attrs(<< >>, S_a, << >>, << >>, << >>),
     childNodes |-> << TextNode, Leaf("pattern", S_x_not_y), TextNode >>]

\* <exclude-patterns category="b">
\*   <pattern value="x,!y"/> <exclude-pattern name="f" value="bar"/>
\* </exclude-patterns>
GroupExclude ==
    [nodeName |-> "exclude-patterns",
     attrs |-> Attrs(<< >>, S_b, << >>, << >>, << >>),
     childNodes |-> << TextNode, Leaf("pattern", S_x_not_y), TextNode,
                       NamedLeaf("exclude-pattern", S_f, S_bar), TextNode >>]

\* <replace-patterns category="b">
\*   <pattern name="f" value="x" replace="y"/> <pattern value="=x=y="/>
\* </replace-patterns>
GroupReplace ==
    [nodeName |-> "replace-patterns",
     attrs |-> Attrs(<< >>, S_b, << >>, << >>, << >>),
     childNodes |-> << TextNode,
                       [nodeName |-> "pattern",
                        attrs |-> Attrs(S_f, << >>, S_x, S_y, << >>),
                        childNodes |-> << >>],
                       TextNode, Leaf("pattern", S_chain_x_y), TextNode >>]

LoadGroups == { GroupSubstLeaves, GroupContinue, GroupPlain, GroupExclude, GroupReplace }

\* the document whose only element is the group
FileOf(id, group) == [id |-> id, status |-> "ok", childNodes |-> << group >>]

LoadFiles ==
    { FileOf("GroupSubstLeaves", GroupSubstLeaves), FileOf("GroupContinue", GroupContinue),
      FileOf("GroupPlain", GroupPlain), FileOf("GroupExclude", GroupExclude),
      FileOf("GroupReplace", GroupReplace) }

NextLoad ==
    \/ \E f \in LoadFiles : Load(f)
    \/ \E node \in LoadGroups : ParsePatterns(node)
    \/ \E m \in { S_a, S_b, S_a_b } \X { S_x } \X { S_f, None } : Replace(m[1], m[2], m[3])
    \/ Return

SpecLoad == Init /\ [][NextLoad]_vars

(***************************************************************************)
(* C25  a leaf of a definition file and the same text given to add         *)
(***************************************************************************)
\* the leaves of a group, in file order
LeafChildren(node) == SelectSeq(node.childNodes, LAMBDA ch : ch.nodeName \in LeafNames)

\* neither the leaf nor its group has the attribute
Without(attribute, node, leaf) ==
    node.attrs[attribute] = << >> /\ leaf.attrs[attribute] = << >>

\* the item that PatternItem.add builds from the value text of the leaf, on a
\* new item with the category and name the leaf has or inherits
AsAddBuilds(node, leaf) ==
    PatternItem_add(
        PatternItem_new(Or(Or(leaf.attrs.category, node.attrs.category), None),
                        Or(Or(leaf.attrs.name, node.attrs.name), None)),
        Or(Or(leaf.attrs.value, leaf.attrs.name), None),
        node.nodeName = "exclude-patterns" \/ leaf.nodeName = "exclude-pattern",
        << >>, "None")

\* As stated: for a leaf without `replace` attribute (and no `continue`
\* attribute on leaf or group) the item the loader builds equals the item
\* PatternItem.add builds from the same value text with the group's exclude
\* role; so a leaf value =old=new= gives a chained substitution and
\* ~old~new~ a non-chained one.
C25_LeafAsAdd_AsStated ==
    call.op = "parse_patterns" =>
        \A i \in 1..Len(call.ret) :
            LET leaf == LeafChildren(call.node)[i]
            IN  Without("replace", call.node, leaf) /\ Without("continue", call.node, leaf)
                    => call.ret[i] = AsAddBuilds(call.node, leaf)

(***************************************************************************)
(* C28  names recorded once                                                *)
(***************************************************************************)
\* As stated: after any sequence of add and load calls, orders[c] holds each
\* name at most once for every category c, so len(orders[c]) is the number
\* of items in categories[c].
C28_NamesOnce_AsStated ==
    \A c \in DOMAIN orders :
        /\ \A i, j \in 1..Len(orders[c]) : orders[c][i] = orders[c][j] => i = j
        /\ Len(orders[c]) = Cardinality(DOMAIN categories[c])

(***************************************************************************)
(* C29  PatternItem.match on a list of candidates                          *)
(***************************************************************************)
\* whether a pattern of the list matches the candidate without its marker
HitBy(list, candidate) ==
    LET bare == IF StartsWith(candidate, OPPOSITE_DELIMITER) THEN Tail(candidate)
                ELSE candidate
    IN  \E i \in 1..Len(list) : RegexSearch(list[i], bare)

\* what item.match returns for the candidate alone, for an item with an
\* include or an exclude pattern
Alone(item, candidate) ==
    LET marked == StartsWith(candidate, OPPOSITE_DELIMITER)
    IN  IF HitBy(item.include, candidate) THEN ~marked
        ELSE IF HitBy(item.exclude, candidate) THEN marked
        ELSE IF item.include # << >> THEN marked
        ELSE ~marked

\* the candidates of the item.match call in progress
Candidates == Split(call.patterns, PATTERN_DELIMITER)

\* C29: for an item with at least one include or exclude pattern, match on a
\* comma-joined list of candidates is decided by the first candidate alone:
\* it returns what match on that candidate returns, whatever the later
\* candidates are.
C29_FirstDecides ==
    /\ call.op = "item.match"
    /\ call.item.include # << >> \/ call.item.exclude # << >>
    => call.ret = Alone(call.item, Candidates[1])

\* a list of two candidates was refused on its first candidate although the
\* item accepts the second one
C29_Witness ==
    /\ call.op = "item.match"
    /\ call.item.include # << >>
    /\ Len(Candidates) = 2
    /\ call.ret = FALSE
    /\ Alone(call.item, Candidates[2]) = TRUE

(***************************************************************************)
(* SubCommandWithThread.run_with_thread(jobs, tasks, func, *args).          *)
(* The task function is taken by how it ends: it returns, or it raises an  *)
(* Exception, a KeyboardInterrupt, or another BaseException (SystemExit)   *)
(* that _run does not catch.  A step of the loop of run_with_thread or of  *)
(* a thread is one access to sem, event or threads.                        *)
(***************************************************************************)
\* the largest jobs argument
MaxJobs == 2

\* the largest number of tasks
MaxTasks == 3

\* the Pattern object takes no part in these steps
store == << categories, orders, hist, call >>

\* run_with_thread(jobs, tasks, func): lines 283-287, or 306 when jobs <= 1
RunWithThread(jobs, tasks) ==
    /\ main.pc = "idle"
    /\ main' = [pc |-> IF jobs > 1 THEN "loop" ELSE "seq", jobs |-> jobs, tasks |-> tasks,
                i |-> 1, ret |-> TRUE, joined |-> {}]
    /\ sem' = IF jobs > 1 THEN jobs ELSE sem
    /\ event' = FALSE
    /\ threads' = << >>
    /\ UNCHANGED store

\* lines 289-291: the next task, unless there is none left or event is set
LoopCheck ==
    /\ main.pc = "loop"
    /\ main' = [main EXCEPT !.pc = IF main.i > main.tasks \/ event THEN "join"
                                   ELSE "acquire"]
    /\ UNCHANGED << store, sem, event, threads >>

\* sem.acquire() with no permit left, taken without waiting
CanAcquire_Always(s) == TRUE

\* sem.acquire() returns only when a permit is left
CanAcquire(s) == s > 0

\* line 293: sem.acquire()
Acquire ==
    /\ main.pc = "acquire"
    /\ CanAcquire(sem)
    /\ sem' = sem - 1
    /\ main' = [main EXCEPT !.pc = "start"]
    /\ UNCHANGED << store, event, threads >>

\* lines 294-298: the thread of task i is created, recorded and started
Start ==
    /\ main.pc = "start"
    /\ threads' = (main.i :> "running") @@ threads
    /\ main' = [main EXCEPT !.pc = "loop", !.i = @ + 1]
    /\ UNCHANGED << store, sem, event >>

\* lines 269-273: func(task) ends in thread t
TaskEnds(t, how) ==
    /\ t \in DOMAIN threads
    /\ threads[t] = "running"
    /\ threads' = [threads EXCEPT ![t] =
                      IF how \in {"Exception", "KeyboardInterrupt"} THEN "except"
                      ELSE "finally"]
    /\ UNCHANGED << store, main, sem, event >>

\* lines 274-279: event.set() in either handler
SetEvent(t) ==
    /\ t \in DOMAIN threads
    /\ threads[t] = "except"
    /\ event' = TRUE
    /\ threads' = [threads EXCEPT ![t] = "finally"]
    /\ UNCHANGED << store, main, sem >>

\* sem.release() that gives no permit back
SemRelease_Keep(s) == s

\* sem.release()
SemRelease(s) == s + 1

\* lines 280-281: sem.release(), and the thread ends
Release(t) ==
    /\ t \in DOMAIN threads
    /\ threads[t] = "finally"
    /\ sem' = SemRelease(sem)
    /\ threads' = [threads EXCEPT ![t] = "finished"]
    /\ UNCHANGED << store, main, event >>

\* lines 300-301: thread.join() returns for a thread that has ended
ThreadJoin(t) ==
    /\ main.pc = "join"
    /\ t \in DOMAIN threads
    /\ t \notin main.joined
    /\ threads[t] = "finished"
    /\ main' = [main EXCEPT !.joined = @ \cup {t}]
    /\ UNCHANGED << store, sem, event, threads >>

\* lines 303-305 and 310: every thread was joined; ret is False when event
\* is set
Finish ==
    /\ main.pc = "join"
    /\ main.joined = DOMAIN threads
    /\ main' = [main EXCEPT !.pc = "returned", !.ret = IF event THEN FALSE ELSE @]
    /\ UNCHANGED << store, sem, event, threads >>

\* lines 307-308 and 310, jobs <= 1: func(task) is called in turn by
\* run_with_thread itself; what it raises leaves run_with_thread
Sequential(how) ==
    /\ main.pc = "seq"
    /\ main' = IF main.i > main.tasks THEN [main EXCEPT !.pc = "returned"]
               ELSE IF how = "raise" THEN [main EXCEPT !.pc = "raised"]
               ELSE [main EXCEPT !.i = @ + 1, !.ret = (how = "True") /\ @]
    /\ UNCHANGED << store, sem, event, threads >>

\* a step of run_with_thread itself
MainStep ==
    \/ LoopCheck
    \/ Acquire
    \/ Start
    \/ \E t \in 1..MaxTasks : ThreadJoin(t)
    \/ Finish
    \/ \E how \in {"True", "False", "raise"} : Sequential(how)

\* a step of the thread of task t
ThreadStep(t) ==
    \/ \E how \in {"return", "Exception", "KeyboardInterrupt", "SystemExit"} : TaskEnds(t, how)
    \/ SetEvent(t)
    \/ Release(t)

NextDispatch ==
    \/ \E jobs \in 1..MaxJobs, tasks \in 0..MaxTasks : RunWithThread(jobs, tasks)
    \/ MainStep
    \/ \E t \in 1..MaxTasks : ThreadStep(t)

SpecDispatch == Init /\ [][NextDispatch]_vars

(***************************************************************************)
(* C26  at most `jobs` task functions at a time                            *)
(***************************************************************************)
\* the threads whose task function is executing
Executing == { t \in DOMAIN threads : threads[t] = "running" }

\* the threads started that have not given their permit back
HoldingPermit == { t \in DOMAIN threads : threads[t] # "finished" }

\* C26: in run_with_thread with jobs > 1, at no time are more than jobs task
\* functions executing: a thread is started only after a permit was
\* acquired, and the permit is given back only when its task has finished,
\* so the permits out are those of the threads not yet finished (and the one
\* taken for the thread about to be started).
C26_AtMostJobs ==
    main.jobs > 1 =>
        /\ Cardinality(Executing) <= main.jobs
        /\ Cardinality(HoldingPermit) + (IF main.pc = "start" THEN 1 ELSE 0)
              = main.jobs - sem

\* jobs task functions are executing and the loop waits for a permit to
\* start one more
C26_Witness ==
    /\ main.jobs > 1
    /\ Cardinality(Executing) = main.jobs
    /\ main.pc = "acquire"
    /\ sem = 0

(***************************************************************************)
(* C27  after a task has failed                                            *)
(***************************************************************************)
\* a thread is started in this step
Starts == DOMAIN threads' # DOMAIN threads

\* As stated: in run_with_thread with jobs > 1, once a task has failed (the
\* event is set) no further task is started, and run_with_thread returns
\* False after all started threads have been joined.
C27_NoStartAfterFailure_AsStated ==
    [][ /\ event => ~Starts
        /\ event /\ main'.pc = "returned" =>
              main'.ret = FALSE /\ main'.joined = DOMAIN threads ]_vars

(***************************************************************************)
(* C30  run_with_thread terminates                                         *)
(***************************************************************************)
\* The scheduler lets run_with_thread take a step that stays possible, and
\* each thread too; a step of a thread whose task function is executing is
\* the end of that function, so the fairness on the threads says that every
\* task function terminates.
FairDispatch ==
    /\ WF_vars(MainStep)
    /\ \A t \in 1..MaxTasks : WF_vars(ThreadStep(t))

SpecDispatchFair == Init /\ [][NextDispatch]_vars /\ FairDispatch

\* C30: if every task function terminates, run_with_thread with jobs > 1
\* terminates: every permit the loop acquired is released by the thread of
\* the task, so the loop does not wait for ever in acquire, and every thread
\* started is joined.
C30_Terminates ==
    (main.pc = "loop") ~>
        (/\ main.pc = "returned"
         /\ main.joined = DOMAIN threads
         /\ sem = main.jobs)

\* run_with_thread has returned after starting more tasks than jobs, so that
\* the loop had to acquire permits that threads had released; all permits
\* are back and all threads joined
C30_Witness ==
    /\ main.pc = "returned"
    /\ main.jobs > 1
    /\ main.tasks > main.jobs
    /\ Cardinality(DOMAIN threads) = main.tasks
    /\ main.joined = DOMAIN threads
    /\ sem = main.jobs

=============================================================================
